---- MODULE Spec2Model ----
(***************************************************************************)
(* A model of MCPControl's ToolRegistry (services/ToolRegistry.ts): the    *)
(* tool catalog, discovery passes against the remote plane, the periodic   *)
(* discovery loop, the execution proxy with its statistics, and the        *)
(* debounced snapshot persistence.                                         *)
(*                                                                         *)
(* The program runs on one event loop.  Every `await` of the source is a   *)
(* point where other tasks may run, so each handler is cut into one action *)
(* per stretch of code between two awaits.                                 *)
(***************************************************************************)
EXTENDS Integers, Sequences, FiniteSets, TLC

VARIABLES
  tools,              \* this.tools: id -> ToolRegistryEntry
  servers,            \* this.servers: id -> MCPServerInfo
  isInitialized,      \* this.isInitialized
  isDiscovering,      \* this.isDiscovering
  discoveryInterval,  \* this.discoveryInterval: a timer id, 0 for undefined
  timers,             \* the event loop's live setInterval timers
  nTimers,            \* setInterval calls made so far (the next timer id - 1)
  saveTimers,         \* this.saveTimer and the event loop's pending timeouts
  writes,             \* saveRegistry() invocations in flight
  file,               \* the snapshot file on disk
  passes,             \* discoverTools() invocations in flight
  loads,              \* initialize() calls awaiting loadPersistedRegistry
  inits,              \* the initialize() calls made so far: how many were made,
                      \* resolved and rejected, and how the last one's pass ended
  calls,              \* the executeTool() calls made so far
  now,                \* Date.now()
  stopped,            \* a stopDiscovery() call has returned and startDiscovery()
                      \* has not been called since
  activeExecutions,   \* the Orchestrator's activeExecutions: id -> WorkflowExecution
  orchestrations,     \* the Orchestrator's executeTool() calls made so far
  workflowRuns,       \* the executeWorkflow() calls made so far
  cancels,            \* the cancelExecution() calls made so far
  requests,           \* the HTTP requests the server has received so far
  apiKey              \* process.env.MCPCONTROL_API_KEY

(* the Orchestrator's state *)
orchestratorVars == <<activeExecutions, orchestrations, workflowRuns, cancels>>

(* the state of the HTTP front end (MCPControlServer) *)
serverVars == <<requests, apiKey>>

vars == <<tools, servers, isInitialized, isDiscovering, discoveryInterval,
          timers, nTimers, saveTimers, writes, file, passes, loads, inits,
          calls, now, stopped, activeExecutions, orchestrations, workflowRuns,
          cancels, requests, apiKey>>

----------------------------------------------------------------------------
(* Bounds of the model. *)

MaxPasses == 3       \* slots for discovery passes in flight
CatalogPasses == 1   \* the catalog under discovery: passes in flight,
CatalogTimers == 1   \*   setInterval calls over a run,
CatalogInits == 1    \*   initialize() calls over a run
HistoryCalls == 1    \* the catalog's history: executeTool() calls over a run
ProxyCalls == 3      \* the execution proxy: executeTool() calls over a run
LoopPasses == 2      \* the discovery loop: passes in flight,
LoopTimers == 2      \*   setInterval calls over a run
SaveWrites == 1      \* persistence: saveRegistry() invocations in flight,
SaveCalls == 1       \*   executeTool() calls over a run
EntryCalls == 2      \* an entry's fields: executeTool() calls over a run
OrchestratorCalls == 2  \* the Orchestrator: executeTool() calls over a run
MaxRuns == 2         \* workflows: executeWorkflow() calls over a run,
MaxCancels == 2      \*   cancelExecution() calls over a run
RoundTripCalls == 2  \* the snapshot's round trip: executeTool() calls over a run
MaxRequests == 3     \* the execute endpoint: requests over a run
AuthRequests == 2    \* the API key: requests over a run
RaceWrites == 2      \* overlapping saves: saveRegistry() invocations in flight
GraphRequests == 2   \* the workflows route: requests over a run
ResultCalls == 2     \* reported failures: executeTool() calls over a run
FrameCalls == 2      \* the Orchestrator and the catalog: executeTool() calls,
FrameRuns == 1       \*   executeWorkflow() calls and
FrameCancels == 1    \*   cancelExecution() calls over a run
MaxNow == 2          \* the clock's last value, where time passes at all
MaxBurst == 2    \* saveRegistryDebounced calls counted between two firings
MaxVer == 2      \* versions a tool is reported with
MaxSeen == 2     \* lastSeen values a server is reported with

ServerIds == {"s1"}
ToolNames == {"echo", "search"}

(* What the remote plane can report in the tools list: a tool, or a record *)
(* that is not a tool object (null).                                       *)
(* A text (a tool's name or description) is modelled by the keywords of    *)
(* the Registry's vocabulary that occur in it; the description and the     *)
(* input schema of a tool are those of its version.                        *)
NameWords(n) == IF n = "search" THEN {"search"} ELSE {}
Description(v) ==
  IF v = 1 THEN {} ELSE IF v = 2 THEN {"git", "file", "list"} ELSE {"file", "create"}
MCPTool(s, n, v) ==
  [malformed |-> FALSE, serverId |-> s, name |-> n, description |-> Description(v),
   version |-> v]
Malformed == [malformed |-> TRUE, serverId |-> "", name |-> "", description |-> {},
              version |-> 0]
ReportedTools == {MCPTool(s, n, v) : s \in ServerIds, n \in ToolNames, v \in 1..MaxVer}

ServerInfo(s, l) == [id |-> s, lastSeen |-> l]

(* undefined, for a field that otherwise holds a time (Date.now() > 0) *)
Undefined == 0

(* MCPCONTROL_API_KEY when it is not set.  An empty value reads the same   *)
(* way in the program (!apiKey).                                           *)
NoApiKey == ""

Empty == [x \in {} |-> 0]
Put(map, k, v) == [x \in (DOMAIN map) \cup {k} |-> IF x = k THEN v ELSE map[x]]

(* Array.from(map.values()).  The arrays of the model are in some order of *)
(* the keys; the program's are in insertion order.                         *)
RECURSIVE Values(_)
Values(map) ==
  IF DOMAIN map = {} THEN <<>>
  ELSE LET k == CHOOSE x \in DOMAIN map : TRUE
       IN <<map[k]>> \o Values([x \in (DOMAIN map) \ {k} |-> map[x]])

----------------------------------------------------------------------------
(* Pure functions of the Registry. *)

(* tool.serverId || 'unknown' *)
OrUnknown(serverId) == IF serverId = "" THEN "unknown" ELSE serverId

generateToolId(tool) == OrUnknown(tool.serverId) \o ":" \o tool.name

ToolIds == {generateToolId(t) : t \in ReportedTools}

hasToolChanged(existing, updated) ==
  \/ existing.description # updated.description
  \/ existing.version # updated.version

Text(tool) == NameWords(tool.name) \cup tool.description
Includes(tool, keywords) == Text(tool) \cap keywords # {}

(* categorizeTool with its tests in the opposite order. *)
categorizeTool_lastMatch(tool) ==
  IF Includes(tool, {"file", "upload", "download"}) THEN "file-management"
  ELSE IF Includes(tool, {"notification", "message", "email"}) THEN "communication"
  ELSE IF Includes(tool, {"code", "git", "build"}) THEN "development"
  ELSE IF Includes(tool, {"data", "database", "sql"}) THEN "data"
  ELSE IF Includes(tool, {"project", "task", "document"}) THEN "project-management"
  ELSE IF Includes(tool, {"rag", "search", "retrieval"}) THEN "rag"
  ELSE "general"

categorizeTool(tool) ==
  IF Includes(tool, {"rag", "search", "retrieval"}) THEN "rag"
  ELSE IF Includes(tool, {"project", "task", "document"}) THEN "project-management"
  ELSE IF Includes(tool, {"data", "database", "sql"}) THEN "data"
  ELSE IF Includes(tool, {"code", "git", "build"}) THEN "development"
  ELSE IF Includes(tool, {"notification", "message", "email"}) THEN "communication"
  ELSE IF Includes(tool, {"file", "upload", "download"}) THEN "file-management"
  ELSE "general"

TagOf(tool, keyword) == IF Includes(tool, {keyword}) THEN <<keyword>> ELSE <<>>
generateTags(tool) ==
  TagOf(tool, "create") \o TagOf(tool, "update") \o TagOf(tool, "delete")
    \o TagOf(tool, "list") \o TagOf(tool, "search") \o TagOf(tool, "ai")
    \o TagOf(tool, "async") \o TagOf(tool, "real-time")

(* x || 1.0 on a success rate kept as a fraction <<numerator, denominator>> *)
OrOne(rate) == IF rate[1] = 0 THEN <<1, 1>> ELSE rate

RECURSIVE Gcd(_, _)
Gcd(a, b) == IF b = 0 THEN a ELSE Gcd(b, a % b)
Fraction(n, d) == LET g == Gcd(n, d) IN <<n \div g, d \div g>>

(* Math.round(rate * k) for a rate >= 0 *)
RoundTimes(rate, k) == (2 * rate[1] * k + rate[2]) \div (2 * rate[2])

(* RegistryEntry with the execution count started afresh. *)
RegistryEntry_resetsStatistics(has, existing, tool) ==
  [ id |-> generateToolId(tool),
    tool |-> tool,
    serverId |-> OrUnknown(tool.serverId),
    category |-> categorizeTool(tool),
    tags |-> generateTags(tool),
    isAvailable |-> TRUE,
    lastExecuted |-> IF has THEN existing.lastExecuted ELSE Undefined,
    executionCount |-> 0,
    averageExecutionTime |-> IF has THEN existing.averageExecutionTime ELSE <<0, 1>>,
    successRate |-> IF has THEN OrOne(existing.successRate) ELSE <<1, 1>>,
    registeredAt |-> IF has /\ existing.registeredAt # 0 THEN existing.registeredAt ELSE now,
    lastUpdated |-> now ]

(* The entry updateTools builds for a reported tool (existing: the prior   *)
(* entry, when has = TRUE).                                                *)
(* averageExecutionTime is kept as a fraction as well.  The fields that   *)
(* nothing in the program ever sets (dependencies, conflictsWith,          *)
(* estimatedExecutionTime, resourceRequirements, healthStatus) are left    *)
(* out.                                                                    *)
RegistryEntry(has, existing, tool) ==
  [ id |-> generateToolId(tool),
    tool |-> tool,
    serverId |-> OrUnknown(tool.serverId),
    category |-> categorizeTool(tool),
    tags |-> generateTags(tool),
    isAvailable |-> TRUE,
    lastExecuted |-> IF has THEN existing.lastExecuted ELSE Undefined,
    executionCount |-> IF has THEN existing.executionCount ELSE 0,
    averageExecutionTime |-> IF has THEN existing.averageExecutionTime ELSE <<0, 1>>,
    successRate |-> IF has THEN OrOne(existing.successRate) ELSE <<1, 1>>,
    registeredAt |-> IF has /\ existing.registeredAt # 0 THEN existing.registeredAt ELSE now,
    lastUpdated |-> now ]

(* saveRegistryDebounced without the clearTimeout. *)
saveRegistryDebounced_keepsTimeout(st) ==
  [handle |-> "pending",
   orphans |-> st.orphans + (IF st.handle = "pending" THEN 1 ELSE 0),
   burst |-> IF st.burst < MaxBurst THEN st.burst + 1 ELSE st.burst]

(* saveRegistryDebounced: clearTimeout(this.saveTimer), then setTimeout.   *)
(* handle is the state of the timeout this.saveTimer refers to; orphans    *)
(* counts pending timeouts that this.saveTimer no longer refers to; burst  *)
(* counts the calls since a save timeout last fired (up to MaxBurst).      *)
saveRegistryDebounced(st) ==
  [handle |-> "pending", orphans |-> st.orphans,
   burst |-> IF st.burst < MaxBurst THEN st.burst + 1 ELSE st.burst]

PendingSaves(st) == st.orphans + (IF st.handle = "pending" THEN 1 ELSE 0)

(* this.emit(event, entry): what a listener of the registry is handed.     *)
Emit(event, toolId) == [event |-> event, id |-> toolId]

(* The first loop of updateTools over the reported list, from a state      *)
(* acc = [tools, st, updated, threw, registered, changed, events].  A      *)
(* record that is not a tool object makes generateToolId throw, which ends *)
(* the loop.  events are the emitted events, in the order of emission.     *)
RECURSIVE RegisterLoop(_, _)
RegisterLoop(acc, list) ==
  IF list = <<>> THEN acc
  ELSE LET tool == Head(list) IN
    IF tool.malformed THEN [acc EXCEPT !.threw = TRUE]
    ELSE LET toolId == generateToolId(tool)
             has == toolId \in DOMAIN acc.tools
             existing == IF has THEN acc.tools[toolId] ELSE RegistryEntry(FALSE, tool, tool)
         IN IF ~has \/ hasToolChanged(existing.tool, tool)
            THEN RegisterLoop(
                   [acc EXCEPT !.tools = Put(acc.tools, toolId, RegistryEntry(has, existing, tool)),
                               !.st = saveRegistryDebounced(acc.st),
                               !.updated = @ \cup {toolId},
                               !.registered = IF has THEN @ ELSE @ \cup {toolId},
                               !.changed = IF has THEN @ \cup {toolId} ELSE @,
                               !.events = Append(@, Emit(IF has THEN "toolUpdated"
                                                         ELSE "toolRegistered", toolId))],
                   Tail(list))
            ELSE RegisterLoop([acc EXCEPT !.updated = @ \cup {toolId}], Tail(list))

(* MarkMissing that drops the entries the pass did not report. *)
MarkMissing_deletes(map, updated) == [id \in (DOMAIN map) \cap updated |-> map[id]]

(* The second loop of updateTools: entries the pass did not report.        *)
MarkMissing(map, updated) ==
  [id \in DOMAIN map |->
     IF id \notin updated /\ map[id].isAvailable
     THEN [map[id] EXCEPT !.isAvailable = FALSE, !.lastUpdated = now]
     ELSE map[id]]

WentMissing(map, updated) == {id \in DOMAIN map : id \notin updated /\ map[id].isAvailable}

(* The toolUnavailable events of the second loop, one per marked entry.    *)
RECURSIVE EmitUnavailable(_)
EmitUnavailable(ids) ==
  IF ids = {} THEN <<>>
  ELSE LET id == CHOOSE i \in ids : TRUE
       IN <<Emit("toolUnavailable", id)>> \o EmitUnavailable(ids \ {id})

updateTools(map, st, list) ==
  LET r == RegisterLoop([tools |-> map, st |-> st, updated |-> {}, threw |-> FALSE,
                         registered |-> {}, changed |-> {}, events |-> <<>>], list)
  IN IF r.threw THEN r
     ELSE [r EXCEPT !.tools = MarkMissing(r.tools, r.updated),
                    !.events = @ \o EmitUnavailable(WentMissing(r.tools, r.updated)),
                    !.st = IF WentMissing(r.tools, r.updated) # {}
                           THEN saveRegistryDebounced(r.st) ELSE r.st]

(* The record updateServers stores for a reported server. *)
StoredServer(has, existing, server) ==
  [ id |-> server.id,
    lastSeen |-> server.lastSeen,
    discoveredAt |-> IF has /\ existing.discoveredAt # 0 THEN existing.discoveredAt ELSE now,
    lastUpdated |-> now ]

(* updateServers over the reported list from acc = [servers, st]. *)
RECURSIVE updateServers(_, _)
updateServers(acc, list) ==
  IF list = <<>> THEN acc
  ELSE LET server == Head(list)
           has == server.id \in DOMAIN acc.servers
           existing == IF has THEN acc.servers[server.id] ELSE server
       IN updateServers(
            [servers |-> IF ~has \/ existing.lastSeen # server.lastSeen
                         THEN Put(acc.servers, server.id, StoredServer(has, existing, server))
                         ELSE acc.servers,
             st |-> saveRegistryDebounced(acc.st)],
            Tail(list))

(* listTools: Array.from(this.tools.values()) *)
listTools(map) == Values(map)

(* getTool: the entry, or nothing. *)
getTool(map, toolId) == IF toolId \in DOMAIN map THEN {map[toolId]} ELSE {}

(* updateToolStatistics with the earlier successes taken over all of the   *)
(* executions, the current one included.                                   *)
updateToolStatistics_roundsOverAll(map, toolId, duration, success) ==
  IF toolId \notin DOMAIN map THEN map
  ELSE LET tool == map[toolId]
           totalExecutions == tool.executionCount + 1
           average == tool.averageExecutionTime
           previousSuccesses == RoundTimes(OrOne(tool.successRate), totalExecutions)
           currentSuccesses == previousSuccesses + (IF success THEN 1 ELSE 0)
       IN [map EXCEPT ![toolId] =
             [tool EXCEPT !.executionCount = totalExecutions,
                          !.lastExecuted = now,
                          !.averageExecutionTime =
                             IF average[1] = 0 THEN <<duration, 1>>
                             ELSE Fraction(average[1] + duration * average[2], 2 * average[2]),
                          !.successRate = Fraction(currentSuccesses, totalExecutions),
                          !.lastUpdated = now]]

(* updateToolStatistics on the entry of toolId. *)
updateToolStatistics(map, toolId, duration, success) ==
  IF toolId \notin DOMAIN map THEN map
  ELSE LET tool == map[toolId]
           totalExecutions == tool.executionCount + 1
           average == tool.averageExecutionTime
           previousSuccesses == RoundTimes(OrOne(tool.successRate), totalExecutions - 1)
           currentSuccesses == previousSuccesses + (IF success THEN 1 ELSE 0)
       IN [map EXCEPT ![toolId] =
             [tool EXCEPT !.executionCount = totalExecutions,
                          !.lastExecuted = now,
                          !.averageExecutionTime =
                             IF average[1] = 0 THEN <<duration, 1>>
                             ELSE Fraction(average[1] + duration * average[2], 2 * average[2]),
                          !.successRate = Fraction(currentSuccesses, totalExecutions),
                          !.lastUpdated = now]]

----------------------------------------------------------------------------
(* The state after construction. *)

(* JSON.stringify of an object: a property whose value is undefined is     *)
(* left out.  Every other value of an entry or a server (strings, finite   *)
(* numbers, booleans, arrays and objects of these) is written as it is.    *)
Stringify(obj) ==
  [f \in {g \in DOMAIN obj : ~(g = "lastExecuted" /\ obj[g] = Undefined)} |-> obj[f]]

StringifyAll(array) == [i \in 1..Len(array) |-> Stringify(array[i])]

(* The object JSON.parse gives back, as the program reads it: a property   *)
(* that is not there reads as undefined.                                   *)
Parse(json) ==
  [f \in (DOMAIN json) \cup (IF "tool" \in DOMAIN json THEN {"lastExecuted"} ELSE {}) |->
     IF f \in DOMAIN json THEN json[f] ELSE Undefined]

(* The snapshot file: missing, not JSON, or the text saveRegistry writes   *)
(* for the maps t and s.                                                   *)
NoFile == [kind |-> "nofile", tools |-> <<>>, servers |-> <<>>]
Garbage == [kind |-> "garbage", tools |-> <<>>, servers |-> <<>>]
Snapshot(t, s) ==
  [kind |-> "snapshot", tools |-> StringifyAll(Values(t)),
   servers |-> StringifyAll(Values(s))]

(* Snapshots an earlier run of the service can have left behind. *)
EchoTool == MCPTool("s1", "echo", 1)
SavedRun ==
  Snapshot(Put(Empty, generateToolId(EchoTool), RegistryEntry(FALSE, EchoTool, EchoTool)),
           Put(Empty, "s1", StoredServer(FALSE, ServerInfo("s1", 1), ServerInfo("s1", 1))))
InitialFiles == {NoFile, Garbage, SavedRun}

(* A discoverTools() invocation: where it is (awaiting the response "get",  *)
(* awaiting updateServers "servers", awaiting updateTools "tools", settled *)
(* for its caller "ret"), who called it, the tools list of the response,   *)
(* the events its updateTools emitted, how it ended and whether it threw   *)
(* to its caller; after: the invocations that were in flight when it sent  *)
(* its request, which was therefore issued after theirs; changed: whether  *)
(* its updateServers changed the servers map.                              *)
IdlePass == [pc |-> "idle", owner |-> "none", list |-> <<>>, events |-> <<>>,
             after |-> {}, changed |-> FALSE, outcome |-> "none", threw |-> FALSE]
PassIds == 1..MaxPasses

Init ==
  /\ now = 1
  /\ tools = Empty
  /\ servers = Empty
  /\ isInitialized = FALSE
  /\ isDiscovering = FALSE
  /\ discoveryInterval = 0
  /\ timers = {}
  /\ nTimers = 0
  /\ saveTimers = [handle |-> "undefined", orphans |-> 0, burst |-> 0]
  /\ writes = <<>>
  /\ file \in InitialFiles
  /\ passes = [p \in PassIds |-> IdlePass]
  /\ loads = 0
  /\ inits = [made |-> 0, resolved |-> 0, rejected |-> 0, discovery |-> "none"]
  /\ calls = <<>>
  /\ stopped = FALSE
  /\ activeExecutions = Empty
  /\ orchestrations = <<>>
  /\ workflowRuns = <<>>
  /\ cancels = <<>>
  /\ requests = <<>>
  /\ apiKey = NoApiKey

----------------------------------------------------------------------------
(* discoverTools() *)

HasFreePass == \E p \in PassIds : passes[p].pc = "idle"
FreePass == CHOOSE p \in PassIds :
              passes[p].pc = "idle" /\ \A q \in PassIds : q < p => passes[q].pc # "idle"
Owned(owner) == {p \in PassIds : passes[p].pc # "idle" /\ passes[p].owner = owner}

(* discoverTools up to its await of axios.get *)
BeginPass(owner) ==
  passes' = [p \in PassIds |->
               IF p = FreePass
               THEN [pc |-> "get", owner |-> owner, list |-> <<>>, events |-> <<>>,
                     after |-> {q \in PassIds : passes[q].pc # "idle"},
                     changed |-> FALSE, outcome |-> "none", threw |-> FALSE]
               ELSE [passes[p] EXCEPT !.after = @ \ {FreePass}]]

(* discoverTools returns (threw = FALSE) or throws to its caller. *)
EndPass(p, outcome, threw) ==
  passes' = [passes EXCEPT ![p] = [pc |-> "ret", owner |-> passes[p].owner, list |-> <<>>,
                                   events |-> <<>>, after |-> {}, changed |-> FALSE,
                                   outcome |-> outcome, threw |-> threw]]

(* DiscoverFail with a catch block that rethrows the error. *)
DiscoverFail_rethrows(p) ==
  /\ passes[p].pc = "get"
  /\ EndPass(p, "request failed", TRUE)
  /\ UNCHANGED <<tools, servers, isInitialized, isDiscovering, discoveryInterval,
                 timers, nTimers, saveTimers, writes, file, loads, inits, calls, now>>

(* axios.get rejects (connection refused, 404, timeout, ...): the catch    *)
(* block logs and returns.                                                 *)
DiscoverFail(p) ==
  /\ passes[p].pc = "get"
  /\ EndPass(p, "request failed", FALSE)
  /\ UNCHANGED <<tools, servers, isInitialized, isDiscovering, discoveryInterval,
                 timers, nTimers, saveTimers, writes, file, loads, inits, calls, now>>

ToolLists == {<<>>} \cup {<<a>> : a \in ReportedTools \cup {Malformed}}
               \cup {<<a, b>> : a \in ReportedTools, b \in ReportedTools \cup {Malformed}}
ServerLists == {<<>>} \cup {<<ServerInfo(s, l)>> : s \in ServerIds, l \in 1..MaxSeen}

(* The response arrives with a tools field that is not an array: the throw *)
(* of line 199 is caught by the same catch block.                          *)
DiscoverInvalid(p) ==
  /\ passes[p].pc = "get"
  /\ EndPass(p, "invalid response", FALSE)
  /\ UNCHANGED <<tools, servers, isInitialized, isDiscovering, discoveryInterval,
                 timers, nTimers, saveTimers, writes, file, loads, inits, calls, now>>

(* updateTools(list) and what follows it without an await in between.      *)
(* A throw out of updateTools is caught by discoverTools' catch block.     *)
RunUpdateTools(p, list, st) ==
  LET r == updateTools(tools, st, list) IN
  /\ tools' = r.tools
  /\ saveTimers' = r.st
  /\ IF r.threw THEN EndPass(p, "update failed", FALSE)
     ELSE passes' = [passes EXCEPT ![p].pc = "tools", ![p].list = list,
                                   ![p].events = r.events]

(* The response arrives with a tools list and a servers list:              *)
(* updateServers runs, and discoverTools awaits its promise.               *)
DiscoverServers(p, list, srv) ==
  /\ passes[p].pc = "get"
  /\ LET r == updateServers([servers |-> servers, st |-> saveTimers], srv) IN
       /\ servers' = r.servers
       /\ saveTimers' = r.st
       /\ passes' = [passes EXCEPT ![p].pc = "servers", ![p].list = list,
                                     ![p].changed = (r.servers # servers)]
  /\ UNCHANGED <<tools, isInitialized, isDiscovering, discoveryInterval,
                 timers, nTimers, writes, file, loads, inits, calls, now>>

(* The response arrives with a tools list and no servers list:             *)
(* updateTools runs at once.                                               *)
DiscoverNoServers(p, list) ==
  /\ passes[p].pc = "get"
  /\ RunUpdateTools(p, list, saveTimers)
  /\ UNCHANGED <<servers, isInitialized, isDiscovering, discoveryInterval,
                 timers, nTimers, writes, file, loads, inits, calls, now>>

(* After the await of updateServers: updateTools. *)
DiscoverTools(p) ==
  /\ passes[p].pc = "servers"
  /\ RunUpdateTools(p, passes[p].list, saveTimers)
  /\ UNCHANGED <<servers, isInitialized, isDiscovering, discoveryInterval,
                 timers, nTimers, writes, file, loads, inits, calls, now>>

(* After the await of updateTools: saveRegistryDebounced(), the            *)
(* toolsDiscovered event, return.                                          *)
DiscoverPersist(p) ==
  /\ passes[p].pc = "tools"
  /\ saveTimers' = saveRegistryDebounced(saveTimers)
  /\ EndPass(p, "discovered", FALSE)
  /\ UNCHANGED <<tools, servers, isInitialized, isDiscovering, discoveryInterval,
                 timers, nTimers, writes, file, loads, inits, calls, now>>

----------------------------------------------------------------------------
(* initialize() *)

(* initialize() is called: it returns at once when already initialized,    *)
(* and otherwise awaits loadPersistedRegistry().                           *)
Initialize ==
  /\ IF isInitialized
     THEN /\ inits' = [inits EXCEPT !.made = @ + 1, !.resolved = @ + 1]
          /\ loads' = loads
     ELSE /\ inits' = [inits EXCEPT !.made = @ + 1]
          /\ loads' = loads + 1
  /\ UNCHANGED <<tools, servers, isInitialized, isDiscovering, discoveryInterval,
                 timers, nTimers, saveTimers, writes, file, passes, calls, now>>

(* for (const t of array) map.set(t.id, t) *)
RECURSIVE SetAll(_, _)
SetAll(map, array) ==
  IF array = <<>> THEN map
  ELSE SetAll(Put(map, Head(array).id, Parse(Head(array))), Tail(array))

(* loadPersistedRegistry that restores the tools only. *)
loadPersistedRegistry_toolsOnly(t, s, f) ==
  IF f.kind = "snapshot"
  THEN [tools |-> SetAll(t, f.tools), servers |-> s]
  ELSE [tools |-> t, servers |-> s]

(* The maps after loadPersistedRegistry has read the file f: every entry   *)
(* of the snapshot is set into the maps under its id.  A missing file      *)
(* (ENOENT) returns, an unreadable one throws, and initialize ignores the  *)
(* throw.                                                                  *)
loadPersistedRegistry(t, s, f) ==
  IF f.kind = "snapshot"
  THEN [tools |-> SetAll(t, f.tools), servers |-> SetAll(s, f.servers)]
  ELSE [tools |-> t, servers |-> s]

(* InitializeLoad without the load: discovery on the empty maps. *)
InitializeLoad_discoversFirst ==
  /\ loads > 0
  /\ HasFreePass
  /\ loads' = loads - 1
  /\ BeginPass("init")
  /\ UNCHANGED <<tools, servers, isInitialized, isDiscovering, discoveryInterval, timers,
                 nTimers, saveTimers, writes, file, inits, calls, now>>

(* loadPersistedRegistry settles; initialize calls discoverTools, which    *)
(* sends its request.                                                      *)
InitializeLoad ==
  /\ loads > 0
  /\ HasFreePass
  /\ loads' = loads - 1
  /\ tools' = loadPersistedRegistry(tools, servers, file).tools
  /\ servers' = loadPersistedRegistry(tools, servers, file).servers
  /\ BeginPass("init")
  /\ UNCHANGED <<isInitialized, isDiscovering, discoveryInterval, timers, nTimers,
                 saveTimers, writes, file, inits, calls, now>>

(* discoverTools has settled for initialize: isInitialized is set, or the  *)
(* error is rethrown.                                                      *)
InitializeReturn(p) ==
  /\ passes[p].pc = "ret"
  /\ passes[p].owner = "init"
  /\ passes' = [passes EXCEPT ![p] = IdlePass]
  /\ IF passes[p].threw
     THEN /\ inits' = [inits EXCEPT !.rejected = @ + 1, !.discovery = passes[p].outcome]
          /\ UNCHANGED isInitialized
     ELSE /\ inits' = [inits EXCEPT !.resolved = @ + 1, !.discovery = passes[p].outcome]
          /\ isInitialized' = TRUE
  /\ UNCHANGED <<tools, servers, isDiscovering, discoveryInterval, timers, nTimers,
                 saveTimers, writes, file, loads, calls, now>>

----------------------------------------------------------------------------
(* startDiscovery(), stopDiscovery() and the interval timer *)

(* startDiscovery() is called: it returns at once when isDiscovering, and  *)
(* otherwise awaits discoverTools().                                       *)
StartDiscovery ==
  /\ HasFreePass
  /\ IF isDiscovering THEN UNCHANGED passes ELSE BeginPass("start")
  /\ stopped' = FALSE
  /\ UNCHANGED <<tools, servers, isInitialized, isDiscovering, discoveryInterval,
                 timers, nTimers, saveTimers, writes, file, loads, inits, calls, now>>

(* discoverTools has settled for startDiscovery: setInterval, and          *)
(* isDiscovering is set.  A throw of discoverTools would leave the method  *)
(* here.                                                                   *)
StartDiscoveryReturn(p) ==
  /\ passes[p].pc = "ret"
  /\ passes[p].owner = "start"
  /\ passes' = [passes EXCEPT ![p] = IdlePass]
  /\ IF passes[p].threw
     THEN UNCHANGED <<isDiscovering, discoveryInterval, timers, nTimers>>
     ELSE /\ nTimers' = nTimers + 1
          /\ timers' = timers \cup {nTimers + 1}
          /\ discoveryInterval' = nTimers + 1
          /\ isDiscovering' = TRUE
  /\ UNCHANGED <<tools, servers, isInitialized, saveTimers, writes, file, loads,
                 inits, calls, now>>

(* StopDiscovery that forgets the handle without clearInterval. *)
StopDiscovery_keepsTimer ==
  /\ IF ~isDiscovering
     THEN UNCHANGED <<timers, discoveryInterval, isDiscovering>>
     ELSE /\ timers' = timers
          /\ discoveryInterval' = 0
          /\ isDiscovering' = FALSE
  /\ stopped' = TRUE
  /\ UNCHANGED <<tools, servers, isInitialized, nTimers, saveTimers, writes, file,
                 passes, loads, inits, calls, now>>

(* stopDiscovery() *)
StopDiscovery ==
  /\ IF ~isDiscovering
     THEN UNCHANGED <<timers, discoveryInterval, isDiscovering>>
     ELSE /\ timers' = timers \ {discoveryInterval}
          /\ discoveryInterval' = 0
          /\ isDiscovering' = FALSE
  /\ stopped' = TRUE
  /\ UNCHANGED <<tools, servers, isInitialized, nTimers, saveTimers, writes, file,
                 passes, loads, inits, calls, now>>

(* A live interval timer fires: its callback calls discoverTools(). *)
IntervalTick(t) ==
  /\ t \in timers
  /\ HasFreePass
  /\ BeginPass("tick")
  /\ UNCHANGED <<tools, servers, isInitialized, isDiscovering, discoveryInterval,
                 timers, nTimers, saveTimers, writes, file, loads, inits, calls, now>>

(* discoverTools has settled for the interval callback, which logs a throw *)
(* and ends.                                                               *)
IntervalReturn(p) ==
  /\ passes[p].pc = "ret"
  /\ passes[p].owner = "tick"
  /\ passes' = [passes EXCEPT ![p] = IdlePass]
  /\ UNCHANGED <<tools, servers, isInitialized, isDiscovering, discoveryInterval,
                 timers, nTimers, saveTimers, writes, file, loads, inits, calls, now>>

----------------------------------------------------------------------------
(* saveRegistry() *)

NoPayload == [tools |-> Empty, servers |-> Empty]

(* A pending save timeout fires: saveRegistry() starts and awaits mkdir.   *)
(* The invocation remembers how many saveRegistryDebounced calls it covers. *)
SaveTimerFire ==
  /\ PendingSaves(saveTimers) > 0
  /\ saveTimers' = IF saveTimers.handle = "pending"
                   THEN [saveTimers EXCEPT !.handle = "fired", !.burst = 0]
                   ELSE [saveTimers EXCEPT !.orphans = @ - 1, !.burst = 0]
  /\ writes' = Append(writes, [pc |-> "mkdir", payload |-> NoPayload,
                               covers |-> saveTimers.burst])
  /\ UNCHANGED <<tools, servers, isInitialized, isDiscovering, discoveryInterval,
                 timers, nTimers, file, passes, loads, inits, calls, now>>

(* mkdir has settled: the payload is built from the maps and writeFile is  *)
(* awaited.                                                                *)
SavePayload(i) ==
  /\ i \in 1..Len(writes)
  /\ writes[i].pc = "mkdir"
  /\ writes' = [writes EXCEPT ![i].pc = "write",
                              ![i].payload = [tools |-> tools, servers |-> servers]]
  /\ UNCHANGED <<tools, servers, isInitialized, isDiscovering, discoveryInterval,
                 timers, nTimers, saveTimers, file, passes, loads, inits, calls, now>>

RemoveAt(seq, i) == SubSeq(seq, 1, i - 1) \o SubSeq(seq, i + 1, Len(seq))

(* writeFile has settled: the file holds the payload. *)
SaveWritten(i) ==
  /\ i \in 1..Len(writes)
  /\ writes[i].pc = "write"
  /\ file' = Snapshot(writes[i].payload.tools, writes[i].payload.servers)
  /\ writes' = RemoveAt(writes, i)
  /\ UNCHANGED <<tools, servers, isInitialized, isDiscovering, discoveryInterval,
                 timers, nTimers, saveTimers, passes, loads, inits, calls, now>>

----------------------------------------------------------------------------
(* executeTool() *)

(* ExecutePath without the availability check. *)
ExecutePath_ignoresAvailability(map, toolId) ==
  IF toolId \notin DOMAIN map THEN "Tool not found" ELSE "forwarded"

(* parameters and context of a call that gives none *)
NoParameters == "undefined"
NoContext == "undefined"

(* The checks executeTool makes before it sends anything. *)
ExecutePath(map, toolId) ==
  IF toolId \notin DOMAIN map THEN "Tool not found"
  ELSE IF ~map[toolId].isAvailable THEN "Tool is not available"
  ELSE "forwarded"

(* executeTool(toolId) is called.  Without an entry, or with an entry that *)
(* is not available, it throws into its own catch block, which calls       *)
(* updateToolStatistics(toolId, duration, false) and awaits it.  Otherwise *)
(* it sends the POST and awaits the response.                              *)
ExecuteTool(toolId, parameters, context) ==
  /\ LET path == ExecutePath(tools, toolId)
     IN /\ calls' = Append(calls,
                      [pc |-> IF path = "forwarded" THEN "post" ELSE "stats",
                       toolId |-> toolId,
                       parameters |-> parameters,
                       context |-> context,
                       startTime |-> now,
                       posts |-> IF path = "forwarded" THEN 1 ELSE 0,
                       returned |-> FALSE,
                       success |-> FALSE,
                       stats |-> IF toolId \in DOMAIN tools /\ path # "forwarded" THEN 1 ELSE 0,
                       toolExecuted |-> 0,
                       toolExecutionFailed |-> 0,
                       settled |-> "pending",
                       error |-> IF path = "forwarded" THEN "none" ELSE path])
        /\ tools' = IF path = "forwarded" THEN tools
                    ELSE updateToolStatistics(tools, toolId, 0, FALSE)
  /\ UNCHANGED <<servers, isInitialized, isDiscovering, discoveryInterval, timers,
                 nTimers, saveTimers, writes, file, passes, loads, inits, now>>

(* ExecuteResponse with the statistics updated on the success path only. *)
ExecuteResponse_countsSuccessesOnly(c, returned) ==
  /\ c \in 1..Len(calls)
  /\ calls[c].pc = "post"
  /\ tools' = IF returned
              THEN updateToolStatistics(tools, calls[c].toolId, now - calls[c].startTime, returned)
              ELSE tools
  /\ calls' = [calls EXCEPT ![c].pc = "stats",
                            ![c].returned = returned,
                            ![c].success = returned,
                            ![c].stats = @ + (IF returned THEN 1 ELSE 0),
                            ![c].error = IF returned THEN "none" ELSE "remote"]
  /\ UNCHANGED <<servers, isInitialized, isDiscovering, discoveryInterval, timers,
                 nTimers, saveTimers, writes, file, passes, loads, inits, now>>

(* The POST settles: the remote plane returned a result (returned = TRUE), *)
(* whose success field is `success`, or the request failed.  The result's  *)
(* fields are not read: updateToolStatistics runs with the literal true on *)
(* the one path and false on the other, and is awaited.                    *)
ExecuteAnswer(c, returned, success) ==
  /\ c \in 1..Len(calls)
  /\ calls[c].pc = "post"
  /\ tools' = updateToolStatistics(tools, calls[c].toolId, now - calls[c].startTime, returned)
  /\ calls' = [calls EXCEPT ![c].pc = "stats",
                            ![c].returned = returned,
                            ![c].success = returned /\ success,
                            ![c].stats = @ + (IF calls[c].toolId \in DOMAIN tools THEN 1 ELSE 0),
                            ![c].error = IF returned THEN "none" ELSE "remote"]
  /\ UNCHANGED <<servers, isInitialized, isDiscovering, discoveryInterval, timers,
                 nTimers, saveTimers, writes, file, passes, loads, inits, now>>

(* The POST settles, where every result the remote plane returns reports   *)
(* success.                                                                *)
ExecuteResponse(c, returned) == ExecuteAnswer(c, returned, TRUE)

(* After the await of updateToolStatistics: the event, then the result is  *)
(* returned or the error rethrown.                                         *)
ExecuteSettle(c) ==
  /\ c \in 1..Len(calls)
  /\ calls[c].pc = "stats"
  /\ calls' = [calls EXCEPT ![c].pc = "done",
                            ![c].toolExecuted = @ + (IF calls[c].returned THEN 1 ELSE 0),
                            ![c].toolExecutionFailed = @ + (IF calls[c].returned THEN 0 ELSE 1),
                            ![c].settled = IF calls[c].returned THEN "resolved" ELSE "rejected"]
  /\ UNCHANGED <<tools, servers, isInitialized, isDiscovering, discoveryInterval,
                 timers, nTimers, saveTimers, writes, file, passes, loads, inits, now>>

----------------------------------------------------------------------------
(* WorkflowOrchestrator (services/WorkflowOrchestrator.ts) *)

(* Orchestrator.executeTool(toolId, parameters, context) is called: it     *)
(* calls the Registry's executeTool, which runs up to its first await, and *)
(* awaits its promise.  registry lists the Registry calls the Orchestrator *)
(* call has made.                                                          *)
OrchestratorExecuteTool(toolId, parameters, context) ==
  /\ ExecuteTool(toolId, parameters, context)
  /\ orchestrations' = Append(orchestrations,
                          [pc |-> "registry",
                           toolId |-> toolId,
                           parameters |-> parameters,
                           context |-> context,
                           registry |-> <<Len(calls) + 1>>,
                           toolExecuted |-> 0,
                           toolExecutionFailed |-> 0,
                           settled |-> "pending",
                           result |-> 0,
                           error |-> "none"])
  /\ UNCHANGED <<activeExecutions, workflowRuns, cancels>>

(* OrchestratorSettle that calls the Registry once more when the first     *)
(* call was rejected.                                                      *)
OrchestratorSettle_retries(o) ==
  /\ o \in 1..Len(orchestrations)
  /\ orchestrations[o].pc = "registry"
  /\ LET orchestration == orchestrations[o]
         k == orchestration.registry[Len(orchestration.registry)]
     IN /\ calls[k].pc = "done"
        /\ IF calls[k].settled = "rejected" /\ Len(orchestration.registry) = 1
           THEN /\ ExecuteTool(orchestration.toolId, orchestration.parameters,
                               orchestration.context)
                /\ orchestrations' =
                     [orchestrations EXCEPT ![o].registry = Append(@, Len(calls) + 1)]
           ELSE /\ orchestrations' =
                     [orchestrations EXCEPT
                        ![o].pc = "done",
                        ![o].toolExecuted = @ + (IF calls[k].settled = "resolved" THEN 1 ELSE 0),
                        ![o].toolExecutionFailed = @ + (IF calls[k].settled = "rejected" THEN 1 ELSE 0),
                        ![o].settled = calls[k].settled,
                        ![o].result = IF calls[k].settled = "resolved" THEN k ELSE 0,
                        ![o].error = calls[k].error]
                /\ UNCHANGED <<tools, servers, isInitialized, isDiscovering,
                               discoveryInterval, timers, nTimers, saveTimers, writes,
                               file, passes, loads, inits, calls, now>>
  /\ UNCHANGED <<activeExecutions, workflowRuns, cancels>>

(* OrchestratorSettle that records a rejected call in the entry's          *)
(* statistics itself.                                                      *)
OrchestratorSettle_recordsFailure(o) ==
  /\ o \in 1..Len(orchestrations)
  /\ orchestrations[o].pc = "registry"
  /\ LET k == orchestrations[o].registry[Len(orchestrations[o].registry)]
     IN /\ calls[k].pc = "done"
        /\ orchestrations' =
             [orchestrations EXCEPT
                ![o].pc = "done",
                ![o].toolExecuted = @ + (IF calls[k].settled = "resolved" THEN 1 ELSE 0),
                ![o].toolExecutionFailed = @ + (IF calls[k].settled = "rejected" THEN 1 ELSE 0),
                ![o].settled = calls[k].settled,
                ![o].result = IF calls[k].settled = "resolved" THEN k ELSE 0,
                ![o].error = calls[k].error]
        /\ tools' = IF calls[k].settled = "rejected"
                    THEN updateToolStatistics(tools, orchestrations[o].toolId, 0, FALSE)
                    ELSE tools
  /\ UNCHANGED <<servers, isInitialized, isDiscovering, discoveryInterval,
                 timers, nTimers, saveTimers, writes, file, passes, loads, inits,
                 calls, now>>
  /\ UNCHANGED <<activeExecutions, workflowRuns, cancels>>

(* The Registry call has settled: the Orchestrator emits toolExecuted and  *)
(* returns the Registry's result (result: the Registry call it is the      *)
(* result of), or emits toolExecutionFailed and rethrows the Registry's    *)
(* error.                                                                  *)
OrchestratorSettle(o) ==
  /\ o \in 1..Len(orchestrations)
  /\ orchestrations[o].pc = "registry"
  /\ LET k == orchestrations[o].registry[Len(orchestrations[o].registry)]
     IN /\ calls[k].pc = "done"
        /\ orchestrations' =
             [orchestrations EXCEPT
                ![o].pc = "done",
                ![o].toolExecuted = @ + (IF calls[k].settled = "resolved" THEN 1 ELSE 0),
                ![o].toolExecutionFailed = @ + (IF calls[k].settled = "rejected" THEN 1 ELSE 0),
                ![o].settled = calls[k].settled,
                ![o].result = IF calls[k].settled = "resolved" THEN k ELSE 0,
                ![o].error = calls[k].error]
  /\ UNCHANGED <<tools, servers, isInitialized, isDiscovering, discoveryInterval,
                 timers, nTimers, saveTimers, writes, file, passes, loads, inits,
                 calls, now>>
  /\ UNCHANGED <<activeExecutions, workflowRuns, cancels>>

(* Workflows and contexts that executeWorkflow is called with. *)
WorkflowStep(id, toolName, dependencies, maxRetries) ==
  [id |-> id, toolName |-> toolName, dependencies |-> dependencies,
   retryPolicy |-> [maxRetries |-> maxRetries]]
Workflow(id, steps) == [id |-> id, name |-> "Test WF", steps |-> steps]
OrchestrationContext(sessionId, errorHandling) ==
  [sessionId |-> sessionId, executionHistory |-> <<>>,
   preferences |-> [errorHandling |-> errorHandling]]

(* ExecuteWorkflow that returns the execution as running, without         *)
(* endTime and without the event.                                          *)
ExecuteWorkflow_leavesRunning(workflow, context) ==
  LET executionId == <<"wf", now, Len(workflowRuns) + 1>>
      execution == [id |-> executionId,
                    workflowId |-> OrUnknown(workflow.id),
                    sessionId |-> context.sessionId,
                    status |-> "running",
                    startTime |-> now,
                    endTime |-> Undefined,
                    results |-> <<>>,
                    errors |-> <<>>,
                    metadata |-> [historyCount |-> Len(context.executionHistory)]]
  IN /\ workflowRuns' = Append(workflowRuns,
                           [workflow |-> workflow,
                            context |-> context,
                            execution |-> execution,
                            workflowCompleted |-> 0,
                            settled |-> "resolved"])
     /\ UNCHANGED <<tools, servers, isInitialized, isDiscovering, discoveryInterval,
                    timers, nTimers, saveTimers, writes, file, passes, loads, inits,
                    calls, now>>
     /\ UNCHANGED <<activeExecutions, orchestrations, cancels>>

(* executeWorkflow(workflow, context): the whole method runs without an    *)
(* await.  It builds an execution that is completed, emits                 *)
(* workflowCompleted and returns the execution; it calls nothing of the    *)
(* Registry and does not touch activeExecutions.  generateExecutionId is   *)
(* modelled as giving a fresh id.                                          *)
ExecuteWorkflow(workflow, context) ==
  LET executionId == <<"wf", now, Len(workflowRuns) + 1>>
      execution == [id |-> executionId,
                    workflowId |-> OrUnknown(workflow.id),
                    sessionId |-> context.sessionId,
                    status |-> "completed",
                    startTime |-> now,
                    endTime |-> now,
                    results |-> <<>>,
                    errors |-> <<>>,
                    metadata |-> [historyCount |-> Len(context.executionHistory)]]
  IN /\ workflowRuns' = Append(workflowRuns,
                           [workflow |-> workflow,
                            context |-> context,
                            execution |-> execution,
                            workflowCompleted |-> 1,
                            settled |-> "resolved"])
     /\ UNCHANGED <<tools, servers, isInitialized, isDiscovering, discoveryInterval,
                    timers, nTimers, saveTimers, writes, file, passes, loads, inits,
                    calls, now>>
     /\ UNCHANGED <<activeExecutions, orchestrations, cancels>>

getActiveExecutions(map) == Values(map)
getExecution(map, executionId) ==
  IF executionId \in DOMAIN map THEN {map[executionId]} ELSE {}

(* CancelExecution that cancels whatever it is asked to cancel. *)
CancelExecution_alwaysCancels(executionId) ==
  /\ cancels' = Append(cancels, [id |-> executionId, returned |-> TRUE,
                                 workflowCancelled |-> 1])
  /\ activeExecutions' =
       [x \in (DOMAIN activeExecutions) \ {executionId} |-> activeExecutions[x]]
  /\ UNCHANGED <<tools, servers, isInitialized, isDiscovering, discoveryInterval,
                 timers, nTimers, saveTimers, writes, file, passes, loads, inits,
                 calls, now>>
  /\ UNCHANGED <<orchestrations, workflowRuns>>

(* CancelExecution that marks the execution cancelled wherever it finds    *)
(* it, the executions that have returned included.                         *)
CancelExecution_marksReturned(executionId) ==
  /\ cancels' = Append(cancels, [id |-> executionId, returned |-> FALSE,
                                 workflowCancelled |-> 0])
  /\ workflowRuns' =
       [r \in 1..Len(workflowRuns) |->
          IF workflowRuns[r].execution.id = executionId
          THEN [workflowRuns[r] EXCEPT !.execution.status = "cancelled"]
          ELSE workflowRuns[r]]
  /\ UNCHANGED <<tools, servers, isInitialized, isDiscovering, discoveryInterval,
                 timers, nTimers, saveTimers, writes, file, passes, loads, inits,
                 calls, now>>
  /\ UNCHANGED <<activeExecutions, orchestrations>>

(* cancelExecution(executionId): found in activeExecutions, the execution  *)
(* is the payload of one workflowCancelled event and is deleted from the   *)
(* map, and true is returned; not found, false is returned.  The           *)
(* execution object itself is not written to.                              *)
CancelExecution(executionId) ==
  /\ IF executionId \in DOMAIN activeExecutions
     THEN /\ cancels' = Append(cancels, [id |-> executionId, returned |-> TRUE,
                                         workflowCancelled |-> 1])
          /\ activeExecutions' =
               [x \in (DOMAIN activeExecutions) \ {executionId} |-> activeExecutions[x]]
     ELSE /\ cancels' = Append(cancels, [id |-> executionId, returned |-> FALSE,
                                         workflowCancelled |-> 0])
          /\ UNCHANGED activeExecutions
  /\ UNCHANGED <<tools, servers, isInitialized, isDiscovering, discoveryInterval,
                 timers, nTimers, saveTimers, writes, file, passes, loads, inits,
                 calls, now>>
  /\ UNCHANGED <<orchestrations, workflowRuns>>

----------------------------------------------------------------------------
(* MCPControlServer (services/MCPControlServer.ts): the preHandler hook    *)
(* and the routes                                                          *)

(* A property of a request body that is a string or a number, or is not    *)
(* there.                                                                  *)
NoString == [defined |-> FALSE, value |-> ""]
String(text) == [defined |-> TRUE, value |-> text]
NoNumber == [defined |-> FALSE, value |-> 0]
Number(n) == [defined |-> TRUE, value |-> n]

(* The body of an execute request: parameters is the text of a JSON value, *)
(* context an object or nothing.  sessionId is a string, timeout and       *)
(* retryCount are numbers wherever a body of the model has them.           *)
NoRequestContext ==
  [defined |-> FALSE, sessionId |-> NoString, timeout |-> NoNumber,
   priority |-> NoString, retryCount |-> NoNumber]
RequestContext(sessionId, timeout, priority, retryCount) ==
  [defined |-> TRUE, sessionId |-> sessionId, timeout |-> timeout,
   priority |-> priority, retryCount |-> retryCount]
ExecuteToolRequest(parameters, context) == [parameters |-> parameters, context |-> context]

(* the JSON texts of the model that are objects *)
Records == {"{}", "{msg: 'hi'}"}

(* ExecuteToolRequestSchema.safeParse(body).success: parameters is a       *)
(* record or is not there, and so is context, with a priority of the enum  *)
(* when it has one.  The numbers are any numbers.                          *)
safeParse(body) ==
  /\ body.parameters \in Records \cup {NoParameters}
  /\ body.context.defined =>
       (body.context.priority.defined =>
          body.context.priority.value \in {"low", "medium", "high"})

(* x || y on strings, x ?? y on numbers and strings *)
OrElse(x, y) == IF x.defined /\ x.value # "" THEN x.value ELSE y
Nullish(x, y) == IF x.defined THEN x.value ELSE y

(* The ToolExecutionContext the execute route builds from the parsed body. *)
ExecContext(toolId, body) ==
  [ toolName |-> toolId,
    arguments |-> IF body.parameters = NoParameters THEN "{}" ELSE body.parameters,
    sessionId |-> OrElse(body.context.sessionId, "session_" \o ToString(now)),
    timeout |-> Nullish(body.context.timeout, 30000),
    retryCount |-> Nullish(body.context.retryCount, 0),
    maxRetries |-> 3,
    priority |-> Nullish(body.context.priority, "medium") ]

(* The urls of the model carry no query string: url === '/health' ||       *)
(* url === '/ready' || url.startsWith('/ws').                              *)
IsPublic(url) == url \in {"/health", "/ready", "/ws"}

ExecuteUrl == "/api/tools/:toolId/execute"
NoHeader == ""
NoBody == ExecuteToolRequest(NoParameters, NoRequestContext)

(* process.env.MCPCONTROL_API_KEY = key, before the server gets a request. *)
SetApiKey(key) ==
  /\ requests = <<>>
  /\ apiKey # key
  /\ apiKey' = key
  /\ UNCHANGED requests

(* Receive with a preHandler hook that compares nothing. *)
Receive_lettingAllIn(url, toolId, key, body) ==
  /\ requests' = Append(requests,
       [url |-> url, toolId |-> toolId, key |-> key, body |-> body,
        pc |-> "handler", code |-> 0, reply |-> "none", result |-> 0,
        listed |-> <<>>, handled |-> FALSE, orchestration |-> 0,
        context |-> NoContext])
  /\ UNCHANGED apiKey

(* A request arrives and the preHandler hook runs (code: the status of the *)
(* answer, 0 before there is one; reply: its body; result: the Registry    *)
(* call whose result the body carries; listed: the ids of the entries it   *)
(* lists; handled: the route handler has run; orchestration: the           *)
(* Orchestrator call the handler has made).  Without a key in the          *)
(* environment, for a public url, or with the key in x-api-key the hook    *)
(* returns and the route handler is to run; otherwise the hook answers     *)
(* 401.  (provided !== apiKey: a request without the header never equals   *)
(* a key that is set.)                                                     *)
Receive(url, toolId, key, body) ==
  /\ LET unauthorized == apiKey # NoApiKey /\ ~IsPublic(url) /\ key # apiKey
     IN requests' = Append(requests,
          [url |-> url, toolId |-> toolId, key |-> key, body |-> body,
           pc |-> IF unauthorized THEN "done" ELSE "handler",
           code |-> IF unauthorized THEN 401 ELSE 0,
           reply |-> IF unauthorized THEN "error: Unauthorized" ELSE "none",
           result |-> 0,
           listed |-> <<>>,
           handled |-> FALSE,
           orchestration |-> 0,
           context |-> NoContext])
  /\ UNCHANGED apiKey

(* The handler of a route without state of its own answers 200: /health    *)
(* (the health checks it awaits change nothing), /ready.                   *)
Answer(r, url, reply) ==
  /\ r \in 1..Len(requests)
  /\ requests[r].pc = "handler"
  /\ requests[r].url = url
  /\ requests' = [requests EXCEPT ![r].pc = "done", ![r].code = 200,
                                  ![r].reply = reply, ![r].handled = TRUE]
  /\ UNCHANGED apiKey

HealthRoute(r) == Answer(r, "/health", "status: healthy")
ReadyRoute(r) == Answer(r, "/ready", "ready")

(* GET /ws: the connection is established. *)
WebSocketRoute(r) ==
  /\ r \in 1..Len(requests)
  /\ requests[r].pc = "handler"
  /\ requests[r].url = "/ws"
  /\ requests' = [requests EXCEPT ![r].pc = "done", ![r].code = 101,
                                  ![r].reply = "connection", ![r].handled = TRUE]
  /\ UNCHANGED apiKey

(* GET /api/tools: { tools: listTools() } *)
ToolsRoute(r) ==
  /\ r \in 1..Len(requests)
  /\ requests[r].pc = "handler"
  /\ requests[r].url = "/api/tools"
  /\ requests' = [requests EXCEPT
                    ![r].pc = "done", ![r].code = 200, ![r].handled = TRUE,
                    ![r].reply = "tools",
                    ![r].listed = [i \in 1..Len(listTools(tools)) |-> listTools(tools)[i].id]]
  /\ UNCHANGED apiKey

(* POST /api/tools/:toolId/execute, up to its await of import('../types'). *)
ExecuteRoute(r) ==
  /\ r \in 1..Len(requests)
  /\ requests[r].pc = "handler"
  /\ requests[r].url = ExecuteUrl
  /\ requests' = [requests EXCEPT ![r].pc = "import", ![r].handled = TRUE]
  /\ UNCHANGED apiKey

(* The route after the import, with a body that fails the schema: 400. *)
ExecuteInvalid(r) ==
  /\ r \in 1..Len(requests)
  /\ requests[r].pc = "import"
  /\ requests[r].url = ExecuteUrl
  /\ ~safeParse(requests[r].body)
  /\ requests' = [requests EXCEPT ![r].pc = "done", ![r].code = 400,
                                  ![r].reply = "error: Invalid tool execution payload"]
  /\ UNCHANGED apiKey

(* The route after the import, with a body that passes: the context is     *)
(* built, orchestrator.executeTool is called and awaited.                  *)
ExecuteValid(r) ==
  /\ r \in 1..Len(requests)
  /\ requests[r].pc = "import"
  /\ requests[r].url = ExecuteUrl
  /\ safeParse(requests[r].body)
  /\ LET execContext == ExecContext(requests[r].toolId, requests[r].body)
     IN /\ OrchestratorExecuteTool(requests[r].toolId, requests[r].body.parameters,
                                   execContext)
        /\ requests' = [requests EXCEPT ![r].pc = "orchestrator",
                                        ![r].orchestration = Len(orchestrations) + 1,
                                        ![r].context = execContext]
  /\ UNCHANGED apiKey

(* ExecuteReply that answers 200 whatever the Orchestrator did. *)
ExecuteReply_alwaysOk(r) ==
  /\ r \in 1..Len(requests)
  /\ requests[r].pc = "orchestrator"
  /\ requests[r].url = ExecuteUrl
  /\ orchestrations[requests[r].orchestration].pc = "done"
  /\ requests' = [requests EXCEPT
                    ![r].pc = "done", ![r].code = 200, ![r].reply = "result",
                    ![r].result = orchestrations[requests[r].orchestration].registry[1]]
  /\ UNCHANGED apiKey

(* orchestrator.executeTool has settled: { result } with the default       *)
(* status 200, or in the catch block 500 and { error }.                    *)
ExecuteReply(r) ==
  /\ r \in 1..Len(requests)
  /\ requests[r].pc = "orchestrator"
  /\ requests[r].url = ExecuteUrl
  /\ LET orchestration == orchestrations[requests[r].orchestration]
     IN /\ orchestration.pc = "done"
        /\ requests' =
             IF orchestration.settled = "resolved"
             THEN [requests EXCEPT ![r].pc = "done", ![r].code = 200,
                                   ![r].reply = "result",
                                   ![r].result = orchestration.result]
             ELSE [requests EXCEPT ![r].pc = "done", ![r].code = 500,
                                   ![r].reply = "error: Tool execution failed"]
  /\ UNCHANGED apiKey

(* POST /api/workflows/execute.  The body of a request is                  *)
(* { workflow, context }.                                                  *)
WorkflowsUrl == "/api/workflows/execute"
ExecuteWorkflowRequest(workflow, context) == [workflow |-> workflow, context |-> context]

(* WorkflowSchema.safeParse(workflow).success: the workflow has its fields *)
(* and every step has an id and a toolName.  The schema has no refinement: *)
(* it compares neither the ids of the steps with one another nor the       *)
(* dependencies with the ids.                                              *)
WorkflowSchema(workflow) ==
  /\ {"id", "name", "steps"} \subseteq DOMAIN workflow
  /\ \A i \in 1..Len(workflow.steps) :
       {"id", "toolName", "dependencies"} \subseteq DOMAIN workflow.steps[i]

(* The route up to its await of import('../types'). *)
WorkflowRoute(r) ==
  /\ r \in 1..Len(requests)
  /\ requests[r].pc = "handler"
  /\ requests[r].url = WorkflowsUrl
  /\ requests' = [requests EXCEPT ![r].pc = "import", ![r].handled = TRUE]
  /\ UNCHANGED apiKey

(* After the import, with a workflow that fails the schema: 400. *)
WorkflowInvalid(r) ==
  /\ r \in 1..Len(requests)
  /\ requests[r].pc = "import"
  /\ requests[r].url = WorkflowsUrl
  /\ ~WorkflowSchema(requests[r].body.workflow)
  /\ requests' = [requests EXCEPT ![r].pc = "done", ![r].code = 400,
                                  ![r].reply = "error: Invalid workflow payload"]
  /\ UNCHANGED apiKey

(* After the import, with a workflow that passes: orchestrator.            *)
(* executeWorkflow is called and awaited; orchestration is the index of    *)
(* the call among the executeWorkflow calls.                               *)
WorkflowValid(r) ==
  /\ r \in 1..Len(requests)
  /\ requests[r].pc = "import"
  /\ requests[r].url = WorkflowsUrl
  /\ WorkflowSchema(requests[r].body.workflow)
  /\ ExecuteWorkflow(requests[r].body.workflow, requests[r].body.context)
  /\ requests' = [requests EXCEPT ![r].pc = "orchestrator",
                                  ![r].orchestration = Len(workflowRuns) + 1]
  /\ UNCHANGED apiKey

(* executeWorkflow has resolved: { result } with the execution, status     *)
(* 200.  (It never rejects, so that the catch block of the route is not    *)
(* entered.)                                                               *)
WorkflowReply(r) ==
  /\ r \in 1..Len(requests)
  /\ requests[r].pc = "orchestrator"
  /\ requests[r].url = WorkflowsUrl
  /\ workflowRuns[requests[r].orchestration].settled = "resolved"
  /\ requests' = [requests EXCEPT ![r].pc = "done", ![r].code = 200,
                                  ![r].reply = "result",
                                  ![r].result = requests[r].orchestration]
  /\ UNCHANGED apiKey

----------------------------------------------------------------------------
(* Time passes. *)
Tick ==
  /\ now' = now + 1
  /\ UNCHANGED <<tools, servers, isInitialized, isDiscovering, discoveryInterval,
                 timers, nTimers, saveTimers, writes, file, passes, loads, inits,
                 calls>>

----------------------------------------------------------------------------

InFlight == Cardinality({p \in PassIds : passes[p].pc # "idle"})

(* initialize(), with at most I calls and P discovery passes in flight. *)
Startup(P, I) ==
  \/ inits.made < I /\ Initialize /\ UNCHANGED <<orchestratorVars, serverVars, stopped>>
  \/ InFlight < P /\ InitializeLoad /\ UNCHANGED <<orchestratorVars, serverVars, stopped>>
  \/ \E p \in PassIds : InitializeReturn(p) /\ UNCHANGED <<orchestratorVars, serverVars, stopped>>

(* startDiscovery(), stopDiscovery() and the interval timer, with at most  *)
(* T setInterval calls and P discovery passes in flight.                   *)
Loop(P, T) ==
  \/ nTimers + Cardinality(Owned("start")) < T /\ InFlight < P /\ StartDiscovery /\ UNCHANGED <<orchestratorVars, serverVars>>
  \/ \E p \in PassIds : StartDiscoveryReturn(p) /\ UNCHANGED <<orchestratorVars, serverVars, stopped>>
  \/ StopDiscovery /\ UNCHANGED <<orchestratorVars, serverVars>>
  \/ \E t \in timers : InFlight < P /\ IntervalTick(t) /\ UNCHANGED <<orchestratorVars, serverVars, stopped>>
  \/ \E p \in PassIds : IntervalReturn(p) /\ UNCHANGED <<orchestratorVars, serverVars, stopped>>

(* startDiscovery() and the interval timer while stopDiscovery() is not    *)
(* called, with at most T setInterval calls and P discovery passes in      *)
(* flight.                                                                 *)
Running(P, T) ==
  \/ nTimers + Cardinality(Owned("start")) < T /\ InFlight < P /\ StartDiscovery /\ UNCHANGED <<orchestratorVars, serverVars>>
  \/ \E p \in PassIds : StartDiscoveryReturn(p) /\ UNCHANGED <<orchestratorVars, serverVars, stopped>>
  \/ \E t \in timers : InFlight < P /\ IntervalTick(t) /\ UNCHANGED <<orchestratorVars, serverVars, stopped>>
  \/ \E p \in PassIds : IntervalReturn(p) /\ UNCHANGED <<orchestratorVars, serverVars, stopped>>

(* The remote plane answers a discovery request, with tools lists from     *)
(* Lists and servers lists from Srvs, and the pass goes on.                *)
Discovery(Lists, Srvs) ==
  \/ \E p \in PassIds : DiscoverFail(p) /\ UNCHANGED <<orchestratorVars, serverVars, stopped>>
  \/ \E p \in PassIds : DiscoverInvalid(p) /\ UNCHANGED <<orchestratorVars, serverVars, stopped>>
  \/ \E p \in PassIds, list \in Lists, srv \in Srvs : DiscoverServers(p, list, srv) /\ UNCHANGED <<orchestratorVars, serverVars, stopped>>
  \/ \E p \in PassIds, list \in Lists : DiscoverNoServers(p, list) /\ UNCHANGED <<orchestratorVars, serverVars, stopped>>
  \/ \E p \in PassIds : DiscoverTools(p) /\ UNCHANGED <<orchestratorVars, serverVars, stopped>>
  \/ \E p \in PassIds : DiscoverPersist(p) /\ UNCHANGED <<orchestratorVars, serverVars, stopped>>

(* The save timeout and the file system, with at most W saveRegistry()     *)
(* invocations in flight.                                                  *)
Persistence(W) ==
  \/ Len(writes) < W /\ SaveTimerFire /\ UNCHANGED <<orchestratorVars, serverVars, stopped>>
  \/ \E i \in 1..Len(writes) : SavePayload(i) /\ UNCHANGED <<orchestratorVars, serverVars, stopped>>
  \/ \E i \in 1..Len(writes) : SaveWritten(i) /\ UNCHANGED <<orchestratorVars, serverVars, stopped>>

(* The clock, up to N. *)
Clock(N) == now < N /\ Tick /\ UNCHANGED <<orchestratorVars, serverVars, stopped>>

(* At most C executeTool() calls, on the ids of Ids. *)
Execution(C, Ids) ==
  \/ \E toolId \in Ids : Len(calls) < C /\ ExecuteTool(toolId, NoParameters, NoContext) /\ UNCHANGED <<orchestratorVars, serverVars, stopped>>
  \/ \E c \in 1..Len(calls), returned \in BOOLEAN : ExecuteResponse(c, returned) /\ UNCHANGED <<orchestratorVars, serverVars, stopped>>
  \/ \E c \in 1..Len(calls) : ExecuteSettle(c) /\ UNCHANGED <<orchestratorVars, serverVars, stopped>>

(* At most C executeTool() calls, those through the Orchestrator on the    *)
(* ids of Ids with parameters from Params and contexts from Ctxs.           *)
Passthrough(C, Ids, Params, Ctxs) ==
  \/ \E toolId \in Ids, parameters \in Params, context \in Ctxs :
       Len(calls) < C /\ OrchestratorExecuteTool(toolId, parameters, context)
         /\ UNCHANGED <<serverVars, stopped>>
  \/ \E o \in 1..Len(orchestrations) : OrchestratorSettle(o) /\ UNCHANGED <<serverVars, stopped>>

(* The ids of the executions made so far, and one of no execution. *)
ExecutionIds == {workflowRuns[r].execution.id : r \in 1..Len(workflowRuns)} \cup {<<"wf", 0, 0>>}

(* At most R executeWorkflow() calls, on the workflows of Ws with the      *)
(* contexts of Cs, and at most K cancelExecution() calls.                  *)
Orchestration(R, K, Ws, Cs) ==
  \/ \E workflow \in Ws, context \in Cs :
       Len(workflowRuns) < R /\ ExecuteWorkflow(workflow, context) /\ UNCHANGED <<serverVars, stopped>>
  \/ \E executionId \in ExecutionIds :
       Len(cancels) < K /\ CancelExecution(executionId) /\ UNCHANGED <<serverVars, stopped>>

(* the Registry's state, the calls that started and stopped its loop, and  *)
(* the clock                                                               *)
registryVars == <<tools, servers, isInitialized, isDiscovering, discoveryInterval,
                  timers, nTimers, saveTimers, writes, file, passes, loads, inits,
                  calls, now, stopped>>

(* At most R requests: for the urls of Urls with the x-api-key headers of  *)
(* Keys,                                                                   *)
Arrivals(R, Urls, Keys) ==
  \E url \in Urls, key \in Keys :
    Len(requests) < R /\ Receive(url, "", key, NoBody)
      /\ UNCHANGED <<registryVars, orchestratorVars>>

(* and for the execute route, on the tools of Ids with the bodies of       *)
(* Bodies.                                                                 *)
ExecuteArrivals(R, Ids, Keys, Bodies) ==
  \E toolId \in Ids, key \in Keys, body \in Bodies :
    Len(requests) < R /\ Receive(ExecuteUrl, toolId, key, body)
      /\ UNCHANGED <<registryVars, orchestratorVars>>

(* The environment is set up with one of Keys. *)
Environment(Keys) ==
  \E key \in Keys : SetApiKey(key) /\ UNCHANGED <<registryVars, orchestratorVars>>

(* The routes that read no body. *)
Routes ==
  \/ \E r \in 1..Len(requests) : HealthRoute(r) /\ UNCHANGED <<registryVars, orchestratorVars>>
  \/ \E r \in 1..Len(requests) : ReadyRoute(r) /\ UNCHANGED <<registryVars, orchestratorVars>>
  \/ \E r \in 1..Len(requests) : WebSocketRoute(r) /\ UNCHANGED <<registryVars, orchestratorVars>>
  \/ \E r \in 1..Len(requests) : ToolsRoute(r) /\ UNCHANGED <<registryVars, orchestratorVars>>

(* The execute route, and the Orchestrator and Registry calls it makes up  *)
(* to their settling.                                                      *)
ExecuteEndpoint ==
  \/ \E r \in 1..Len(requests) : ExecuteRoute(r) /\ UNCHANGED <<registryVars, orchestratorVars>>
  \/ \E r \in 1..Len(requests) : ExecuteInvalid(r) /\ UNCHANGED <<registryVars, orchestratorVars>>
  \/ \E r \in 1..Len(requests) : ExecuteValid(r) /\ UNCHANGED stopped
  \/ \E c \in 1..Len(calls), returned \in BOOLEAN :
       ExecuteResponse(c, returned) /\ UNCHANGED <<orchestratorVars, serverVars, stopped>>
  \/ \E c \in 1..Len(calls) : ExecuteSettle(c) /\ UNCHANGED <<orchestratorVars, serverVars, stopped>>
  \/ \E o \in 1..Len(orchestrations) : OrchestratorSettle(o) /\ UNCHANGED <<serverVars, stopped>>
  \/ \E r \in 1..Len(requests) : ExecuteReply(r) /\ UNCHANGED <<registryVars, orchestratorVars>>

(* At most R requests for the workflows route, with the bodies of Bodies,  *)
WorkflowArrivals(R, Keys, Bodies) ==
  \E key \in Keys, body \in Bodies :
    Len(requests) < R /\ Receive(WorkflowsUrl, "", key, body)
      /\ UNCHANGED <<registryVars, orchestratorVars>>

(* and the route with the executeWorkflow call it makes.                   *)
WorkflowEndpoint ==
  \/ \E r \in 1..Len(requests) : WorkflowRoute(r) /\ UNCHANGED <<registryVars, orchestratorVars>>
  \/ \E r \in 1..Len(requests) : WorkflowInvalid(r) /\ UNCHANGED <<registryVars, orchestratorVars>>
  \/ \E r \in 1..Len(requests) : WorkflowValid(r) /\ UNCHANGED stopped
  \/ \E r \in 1..Len(requests) : WorkflowReply(r) /\ UNCHANGED <<registryVars, orchestratorVars>>

----------------------------------------------------------------------------
(* The catalog under discovery: one initialize() call, the discovery loop, *)
(* and a remote plane that reports any list of up to two tools.            *)

Next ==
  \/ Startup(CatalogPasses, CatalogInits)
  \/ Loop(CatalogPasses, CatalogTimers)
  \/ Discovery(ToolLists, ServerLists)

Spec == Init /\ [][Next]_vars

ReportedIds(list) ==
  {generateToolId(list[k]) : k \in {n \in 1..Len(list) : ~list[n].malformed}}

(* Pass p ends in this step because its request failed. *)
RequestFails(p) ==
  /\ passes[p].pc = "get"
  /\ passes'[p].pc = "ret"
  /\ passes'[p].outcome = "request failed"

(* Pass p completes updateTools in this step. *)
PassUpdatesTools(p) == passes[p].pc \in {"get", "servers"} /\ passes'[p].pc = "tools"

(* C1: when the GET /tools request of a discovery pass fails, the pass     *)
(* leaves the tools and servers maps as they were and does not throw to    *)
(* its caller; no initialize() call is ever rejected; and once a single    *)
(* initialize() whose pass failed has resolved, with no discovery loop     *)
(* started, the catalog is exactly what the snapshot load gave (empty on a *)
(* cold start without a snapshot).                                         *)
C1_FailedDiscoveryTolerated ==
  /\ [][\A p \in PassIds : RequestFails(p) =>
          tools' = tools /\ servers' = servers /\ ~passes'[p].threw]_vars
  /\ [](inits.rejected = 0)
  /\ []((inits.made = 1 /\ inits.resolved = 1 /\ inits.discovery = "request failed"
          /\ nTimers = 0 /\ Owned("start") = {})
        => /\ tools = loadPersistedRegistry(Empty, Empty, file).tools
           /\ (file.kind # "snapshot" => tools = Empty))

C1_Witness ==
  /\ inits.resolved = 1
  /\ inits.discovery = "request failed"
  /\ isInitialized
  /\ nTimers = 0
  /\ tools = loadPersistedRegistry(Empty, Empty, SavedRun).tools
  /\ tools # Empty

(* C2: once a pass has completed updateTools, an entry is available if and *)
(* only if the pass reported its tool.                                     *)
C2_AvailableIffReported ==
  [][\A p \in PassIds : PassUpdatesTools(p) =>
       \A id \in DOMAIN tools' :
         tools'[id].isAvailable <=> id \in ReportedIds(passes'[p].list)]_vars

(* The remote plane answers pass p in this step (the request did not fail). *)
Answered(p) ==
  /\ passes[p].pc \in {"get", "servers"}
  /\ passes'[p] # passes[p]
  /\ passes'[p].outcome # "request failed"

(* C12: initialize() loads the snapshot in the step in which it sends its  *)
(* discovery request, so before any answer; afterwards the catalog changes *)
(* only when the remote plane answers a pass, so that with a snapshot and  *)
(* an unreachable remote plane listTools() after initialize() returns      *)
(* exactly the snapshot's entries; and with a missing or unreadable        *)
(* snapshot initialize() resolves all the same, on the maps as they were.  *)
C12_SnapshotBeforeDiscovery ==
  /\ [][loads' < loads =>
          /\ tools' = loadPersistedRegistry(tools, servers, file).tools
          /\ servers' = loadPersistedRegistry(tools, servers, file).servers
          /\ file.kind # "snapshot" => tools' = tools /\ servers' = servers
          /\ \E p \in PassIds : /\ passes[p].pc = "idle"
                                 /\ passes'[p].pc = "get"
                                 /\ passes'[p].owner = "init"]_vars
  /\ [][(loads' = loads /\ \A p \in PassIds : ~Answered(p)) => tools' = tools]_vars
  /\ [](inits.made = inits.resolved + loads + Cardinality(Owned("init")))
  /\ []((inits.made = 1 /\ inits.resolved = 1 /\ inits.discovery = "request failed"
          /\ nTimers = 0 /\ Owned("start") = {} /\ file.kind = "snapshot")
        => listTools(tools) = listTools(loadPersistedRegistry(Empty, Empty, file).tools))

C12_Witness ==
  /\ file.kind = "snapshot"
  /\ inits.made = 1
  /\ inits.resolved = 1
  /\ inits.discovery = "request failed"
  /\ Len(listTools(tools)) = 1
  /\ listTools(tools)[1].id = "s1:echo"
  /\ "s1" \in DOMAIN servers

----------------------------------------------------------------------------
(* The catalog's history: snapshot loads, discovery passes that report two *)
(* tools coming and going, and executions.                                 *)

ComeAndGo ==
  {<<>>, <<MCPTool("s1", "echo", 1)>>, <<MCPTool("s1", "search", 1)>>,
   <<MCPTool("s1", "echo", MaxVer), MCPTool("s1", "search", 1)>>}

NextHistory ==
  \/ Startup(CatalogPasses, CatalogInits)
  \/ Loop(CatalogPasses, CatalogTimers)
  \/ Discovery(ComeAndGo, {<<>>})
  \/ Execution(HistoryCalls, ToolIds)

SpecHistory == Init /\ [][NextHistory]_vars

(* C3: no step removes an entry from the tools map, and when a pass has    *)
(* completed updateTools every entry it did not report is still in the map *)
(* with isAvailable = FALSE, and getTool returns it.                       *)
C3_EntriesNeverRemoved ==
  /\ [][DOMAIN tools \subseteq DOMAIN tools']_vars
  /\ [][\A p \in PassIds : PassUpdatesTools(p) =>
          \A id \in DOMAIN tools :
            id \notin ReportedIds(passes'[p].list) =>
              /\ id \in DOMAIN tools'
              /\ ~tools'[id].isAvailable
              /\ getTool(tools', id) = {tools'[id]}]_vars

C3_Witness ==
  \E p \in PassIds, id \in DOMAIN tools :
    /\ passes[p].pc = "tools"
    /\ id \notin ReportedIds(passes[p].list)
    /\ ~tools[id].isAvailable
    /\ tools[id].executionCount > 0
    /\ Cardinality(DOMAIN tools) = 2

----------------------------------------------------------------------------
(* The execution proxy: executeTool() calls on one tool, which discovery   *)
(* registers, replaces with a new version and marks unavailable.           *)

InitCold == Init /\ file = NoFile

EchoLists == {<<>>} \cup {<<MCPTool("s1", "echo", v)>> : v \in 1..MaxVer}

NextProxy ==
  \/ Loop(CatalogPasses, CatalogTimers)
  \/ Discovery(EchoLists, {<<>>})
  \/ Execution(ProxyCalls, {"s1:echo"})

SpecProxy == InitCold /\ [][NextProxy]_vars

Forwarded(toolId) == {c \in 1..Len(calls) : calls[c].toolId = toolId /\ calls[c].posts = 1}

(* C4: when N >= 1 calls for a tool have been forwarded and have all been  *)
(* answered, M of them with a result, the entry's successRate is M/N.      *)
C4_SuccessRateIsMOverN ==
  \A id \in DOMAIN tools :
    LET N == Cardinality(Forwarded(id))
        M == Cardinality({c \in Forwarded(id) : calls[c].returned})
    IN (N >= 1 /\ \A c \in Forwarded(id) : calls[c].pc # "post")
         => tools[id].successRate[1] * N = M * tools[id].successRate[2]

(* C5: a call sends the POST if and only if, when it is made, the entry    *)
(* exists and is available; without an entry it fails with 'Tool not       *)
(* found', with an unavailable entry with 'Tool is not available'; such a  *)
(* call never sends a request and is rejected.                             *)
C5_ForwardedOnlyIfAvailable ==
  /\ [][Len(calls') = Len(calls) + 1 =>
          LET call == calls'[Len(calls')]
              id == call.toolId
          IN /\ call.posts = 1 <=> (id \in DOMAIN tools /\ tools[id].isAvailable)
             /\ id \notin DOMAIN tools => call.error = "Tool not found"
             /\ (id \in DOMAIN tools /\ ~tools[id].isAvailable)
                  => call.error = "Tool is not available"]_vars
  /\ [][\A c \in 1..Len(calls) : calls'[c].posts = calls[c].posts]_vars
  /\ [](\A c \in 1..Len(calls) :
          calls[c].error \in {"Tool not found", "Tool is not available"}
            => /\ calls[c].posts = 0
               /\ calls[c].pc = "done" => calls[c].settled = "rejected")

C5_Witness ==
  \E a, b, c \in 1..Len(calls) :
    /\ calls[a].pc = "done" /\ calls[a].error = "Tool not found" /\ calls[a].posts = 0
    /\ calls[b].pc = "done" /\ calls[b].error = "Tool is not available" /\ calls[b].posts = 0
    /\ calls[c].posts = 1

(* C6: a forwarded call applies exactly one statistics update, which adds  *)
(* exactly 1 to the entry's executionCount, and emits exactly one event:   *)
(* toolExecuted when the remote call returned, toolExecutionFailed when it *)
(* failed; a failed call is rejected with the remote error only after the  *)
(* update and the event.                                                   *)
C6_OneUpdateOneEvent ==
  /\ [][\A c \in 1..Len(calls) :
          (calls[c].pc = "post" /\ calls'[c].pc # "post") =>
             tools'[calls[c].toolId].executionCount
               = tools[calls[c].toolId].executionCount + 1]_vars
  /\ [](\A c \in 1..Len(calls) : calls[c].posts = 1 =>
          LET call == calls[c]
              events == call.toolExecuted + call.toolExecutionFailed
          IN /\ call.pc = "post" => call.stats = 0 /\ events = 0 /\ call.settled = "pending"
             /\ call.pc = "stats" => call.stats = 1 /\ events = 0 /\ call.settled = "pending"
             /\ call.pc = "done" =>
                  /\ call.stats = 1
                  /\ events = 1
                  /\ call.returned => call.toolExecuted = 1 /\ call.settled = "resolved"
                  /\ ~call.returned => /\ call.toolExecutionFailed = 1
                                       /\ call.settled = "rejected"
                                       /\ call.error = "remote")

C6_Witness ==
  \E a, b \in 1..Len(calls) :
    /\ calls[a].posts = 1 /\ calls[a].pc = "done" /\ calls[a].returned
    /\ calls[b].posts = 1 /\ calls[b].pc = "done" /\ ~calls[b].returned
    /\ tools[calls[a].toolId].executionCount >= 2

----------------------------------------------------------------------------
(* The discovery loop: overlapping startDiscovery() and stopDiscovery()    *)
(* calls and the interval timers, against a remote plane that fails or     *)
(* reports one tool.                                                       *)

NextLoop ==
  \/ Loop(LoopPasses, LoopTimers)
  \/ Discovery({<<>>, <<EchoTool>>}, {<<>>})

SpecLoop == InitCold /\ [][NextLoop]_vars

(* C7: at most one interval timer is live. *)
C7_AtMostOneTimer == Cardinality(timers) <= 1

(* Pass p, the immediate pass of a startDiscovery() call, has settled and  *)
(* the call goes on in this step.                                          *)
StartGoesOn(p) ==
  /\ passes[p].pc = "ret"
  /\ passes[p].owner = "start"
  /\ passes'[p].pc = "idle"

(* C8: a timer is scheduled only by a startDiscovery() call whose          *)
(* immediate pass has settled, and is scheduled then however the pass      *)
(* ended; a live timer can start a pass whenever a pass can start, and     *)
(* only stopDiscovery() ends a timer, no failed pass does; stopDiscovery() *)
(* cancels the timer it holds; and while the loop is not running           *)
(* startDiscovery() begins a pass.                                         *)
C8_LoopLifecycle ==
  /\ [][\A p \in PassIds : StartGoesOn(p) =>
          /\ nTimers' = nTimers + 1
          /\ discoveryInterval' = nTimers'
          /\ discoveryInterval' \in timers'
          /\ isDiscovering']_vars
  /\ [][nTimers' # nTimers =>
          \E p \in PassIds : StartGoesOn(p) /\ passes[p].outcome # "none"]_vars
  /\ [](\A t \in timers : HasFreePass => ENABLED IntervalTick(t))
  /\ [][timers \subseteq timers' \/ (isDiscovering /\ ~isDiscovering')]_vars
  /\ [][(isDiscovering /\ ~isDiscovering') =>
          discoveryInterval \notin timers' /\ discoveryInterval' = 0]_vars
  /\ []((~isDiscovering /\ HasFreePass) => ENABLED (StartDiscovery /\ passes' # passes))

C8_Witness ==
  /\ nTimers = 2
  /\ timers = {2}
  /\ discoveryInterval = 2
  /\ isDiscovering
  /\ \E p \in PassIds : /\ passes[p].pc = "ret"
                        /\ passes[p].owner = "tick"
                        /\ passes[p].outcome = "request failed"

----------------------------------------------------------------------------
(* Persistence: from a cold start without a snapshot, discovery passes and *)
(* executions that change the catalog, the save timeout and the writes of  *)
(* the snapshot file.                                                      *)

NextSave ==
  \/ Running(CatalogPasses, CatalogTimers)
  \/ Discovery(EchoLists, {<<>>, <<ServerInfo("s1", 1)>>})
  \/ Persistence(SaveWrites)
  \/ Execution(SaveCalls, {"s1:echo"})

SpecSave == InitCold /\ [][NextSave]_vars

(* C9: at most one save timeout is pending; a saveRegistryDebounced call   *)
(* leaves exactly one pending and starts no write; a write starts only     *)
(* when a timeout fires, one write per firing, covering every call since   *)
(* the firing before; its payload is the catalog as it is when the payload *)
(* is built, and the file is only ever changed to such a payload.          *)
C9_DebouncedWrite ==
  /\ [](PendingSaves(saveTimers) <= 1)
  /\ [][(saveTimers' # saveTimers /\ Len(writes') = Len(writes)) =>
          /\ saveTimers'.handle = "pending"
          /\ PendingSaves(saveTimers') = 1]_vars
  /\ [][Len(writes') > Len(writes) =>
          /\ Len(writes') = Len(writes) + 1
          /\ PendingSaves(saveTimers) = 1
          /\ PendingSaves(saveTimers') = 0
          /\ writes'[Len(writes')].covers = saveTimers.burst
          /\ saveTimers.burst >= 1]_vars
  /\ [][\A i \in 1..Len(writes) :
          (writes[i].pc = "mkdir" /\ Len(writes') = Len(writes) /\ writes'[i].pc = "write")
            => writes'[i].payload = [tools |-> tools, servers |-> servers]]_vars
  /\ [][file' # file =>
          \E i \in 1..Len(writes) :
            /\ writes[i].pc = "write"
            /\ file' = Snapshot(writes[i].payload.tools, writes[i].payload.servers)]_vars

C9_Witness ==
  \E i \in 1..Len(writes) :
    /\ writes[i].pc = "write"
    /\ writes[i].covers >= 2
    /\ writes[i].payload.tools # Empty
    /\ writes[i].payload = [tools |-> tools, servers |-> servers]
    /\ PendingSaves(saveTimers) = 0

Written(id) ==
  LET saved == loadPersistedRegistry(Empty, Empty, file).tools
  IN /\ file.kind = "snapshot"
     /\ id \in DOMAIN saved
     /\ saved[id] = tools[id]

BeingWritten(id) ==
  \E i \in 1..Len(writes) :
    \/ writes[i].pc = "mkdir"
    \/ /\ writes[i].pc = "write"
       /\ id \in DOMAIN writes[i].payload.tools
       /\ writes[i].payload.tools[id] = tools[id]

(* C10: every entry of the catalog is in the snapshot file as it is in     *)
(* memory, or is being written so, or a save timeout is pending.           *)
C10_EveryChangeScheduled ==
  \A id \in DOMAIN tools :
    Written(id) \/ BeingWritten(id) \/ PendingSaves(saveTimers) > 0

----------------------------------------------------------------------------
(* The snapshot's round trip: a start that loads what an earlier run left, *)
(* one discovery pass, executions while time passes, and the writes of the *)
(* snapshot file.                                                          *)

RoundTripLists == {<<>>, <<MCPTool("s1", "echo", MaxVer), MCPTool("s1", "search", 1)>>}

NextRoundTrip ==
  \/ Startup(CatalogPasses, CatalogInits)
  \/ Discovery(RoundTripLists, {<<ServerInfo("s1", MaxSeen)>>})
  \/ Persistence(SaveWrites)
  \/ Execution(RoundTripCalls, {"s1:echo"})
  \/ Clock(MaxNow)

SpecRoundTrip == Init /\ [][NextRoundTrip]_vars

(* C11: whenever saveRegistry writes the file, loading that file into an   *)
(* empty Registry gives tools and servers maps equal to the maps the       *)
(* payload was built from, every entry under its own id with the same      *)
(* category, tags, availability flag and statistics; and what initialize   *)
(* loads from a snapshot into the empty Registry is what, saved again,     *)
(* gives that snapshot.                                                    *)
C11_RoundTrip ==
  /\ [][file' # file =>
          \E i \in 1..Len(writes) :
            LET saved == writes[i].payload
                loaded == loadPersistedRegistry(Empty, Empty, file')
            IN /\ writes[i].pc = "write"
               /\ loaded = saved
               /\ \A id \in DOMAIN saved.tools :
                    /\ loaded.tools[id].id = id
                    /\ loaded.tools[id].category = saved.tools[id].category
                    /\ loaded.tools[id].tags = saved.tools[id].tags
                    /\ loaded.tools[id].isAvailable = saved.tools[id].isAvailable
                    /\ loaded.tools[id].lastExecuted = saved.tools[id].lastExecuted
                    /\ loaded.tools[id].executionCount = saved.tools[id].executionCount
                    /\ loaded.tools[id].averageExecutionTime = saved.tools[id].averageExecutionTime
                    /\ loaded.tools[id].successRate = saved.tools[id].successRate]_vars
  /\ [][(loads' < loads /\ file.kind = "snapshot" /\ tools = Empty /\ servers = Empty)
          => Snapshot(tools', servers') = file]_vars

C11_Witness ==
  /\ file.kind = "snapshot"
  /\ Len(file.servers) = 1
  /\ \E i, j \in 1..Len(file.tools) :
       /\ "lastExecuted" \notin DOMAIN file.tools[i]
       /\ "lastExecuted" \in DOMAIN file.tools[j]
       /\ file.tools[j].lastExecuted > 1
       /\ file.tools[j].executionCount = 2
       /\ file.tools[j].successRate = <<1, 2>>
       /\ file.tools[j].averageExecutionTime[1] > 0
  /\ loadPersistedRegistry(Empty, Empty, file) = [tools |-> tools, servers |-> servers]

----------------------------------------------------------------------------
(* An entry's fields: one tool that discovery registers, replaces with a   *)
(* new version and marks unavailable, and executions of it while time      *)
(* passes.                                                                 *)

NextEntry ==
  \/ Loop(CatalogPasses, CatalogTimers)
  \/ Discovery(EchoLists, {<<>>})
  \/ Execution(EntryCalls, {"s1:echo"})
  \/ Clock(MaxNow)

SpecEntry == InitCold /\ [][NextEntry]_vars

(* The entry of id is replaced in this step by one for a changed tool. *)
Replaced(id) ==
  /\ id \in DOMAIN tools
  /\ id \in DOMAIN tools'
  /\ tools'[id].tool # tools[id].tool

(* C13: when a pass replaces the entry of a known tool that changed, the   *)
(* new entry has the prior entry's id, registeredAt, lastExecuted,         *)
(* executionCount, averageExecutionTime and successRate, whatever they     *)
(* were; tool, category, tags and lastUpdated are those of the report.     *)
C13_ReplacementKeepsStatistics ==
  [][\A id \in ToolIds : Replaced(id) =>
       /\ tools'[id].id = tools[id].id
       /\ tools'[id].registeredAt = tools[id].registeredAt
       /\ tools'[id].lastExecuted = tools[id].lastExecuted
       /\ tools'[id].executionCount = tools[id].executionCount
       /\ tools'[id].averageExecutionTime = tools[id].averageExecutionTime
       /\ tools'[id].successRate = tools[id].successRate
       /\ tools'[id].category = categorizeTool(tools'[id].tool)
       /\ tools'[id].tags = generateTags(tools'[id].tool)
       /\ tools'[id].lastUpdated = now]_vars

(* The forwarded call c is answered in this step. *)
AnsweredCall(c) == calls[c].posts = 1 /\ calls[c].pc = "post" /\ calls'[c].pc # "post"

(* The statistics updates applied so far to the entry of a call's tool     *)
(* were all those of forwarded calls.                                      *)
OnlyForwarded(c) ==
  \A k \in 1..Len(calls) :
    (calls[k].toolId = calls[c].toolId /\ calls[k].stats = 1) => calls[k].posts = 1

(* C25: when a forwarded call is answered after duration ms, the entry's   *)
(* averageExecutionTime becomes the duration if it is the entry's first    *)
(* execution, and (previous average + duration) / 2 otherwise, whatever    *)
(* the durations are.                                                      *)
C25_TwoPointAverage ==
  [][\A c \in 1..Len(calls) : (AnsweredCall(c) /\ OnlyForwarded(c)) =>
       LET id == calls[c].toolId
           duration == now - calls[c].startTime
           previous == tools[id].averageExecutionTime
       IN tools'[id].averageExecutionTime =
            IF tools[id].executionCount = 0 THEN <<duration, 1>>
            ELSE Fraction(previous[1] + duration * previous[2], 2 * previous[2])]_vars

----------------------------------------------------------------------------
(* The Orchestrator's single-tool execution: executeTool() calls through   *)
(* the Orchestrator and directly on the Registry, on one tool that         *)
(* discovery registers, replaces and marks unavailable.                    *)

Parameters == {NoParameters, "{a: 1}"}
ToolContexts == {NoContext, "{sessionId: 's1', priority: 'low'}"}

NextOrchestrator ==
  \/ Loop(CatalogPasses, CatalogTimers)
  \/ Discovery(EchoLists, {<<>>})
  \/ Execution(OrchestratorCalls, {"s1:echo"})
  \/ Passthrough(OrchestratorCalls, {"s1:echo"}, Parameters, ToolContexts)

SpecOrchestrator == InitCold /\ [][NextOrchestrator]_vars

(* C14: an Orchestrator executeTool call makes one Registry executeTool    *)
(* call, with its own tool id, parameters and context, when it is called,  *)
(* and none later; no two Orchestrator calls share a Registry call; until  *)
(* the Registry call has settled the Orchestrator call is pending and has  *)
(* emitted nothing; afterwards it is resolved with that call's result and  *)
(* has emitted toolExecuted once and nothing else, or it is rejected with  *)
(* that call's error and has emitted toolExecutionFailed once and nothing  *)
(* else.                                                                   *)
C14_OrchestratorPassThrough ==
  /\ [][Len(orchestrations') = Len(orchestrations) + 1 =>
          LET orchestration == orchestrations'[Len(orchestrations')]
          IN /\ Len(calls') = Len(calls) + 1
             /\ orchestration.registry = <<Len(calls')>>
             /\ calls'[Len(calls')].toolId = orchestration.toolId
             /\ calls'[Len(calls')].parameters = orchestration.parameters
             /\ calls'[Len(calls')].context = orchestration.context]_vars
  /\ [][(Len(orchestrations') = Len(orchestrations) /\ orchestrations' # orchestrations)
          => calls' = calls /\ tools' = tools]_vars
  /\ [](\A o \in 1..Len(orchestrations) :
          LET orchestration == orchestrations[o]
              call == calls[orchestration.registry[1]]
              events == orchestration.toolExecuted + orchestration.toolExecutionFailed
          IN /\ Len(orchestration.registry) = 1
             /\ \A other \in 1..Len(orchestrations) :
                  other # o => orchestrations[other].registry[1] # orchestration.registry[1]
             /\ orchestration.pc = "registry" =>
                  events = 0 /\ orchestration.settled = "pending"
             /\ orchestration.pc = "done" =>
                  /\ call.pc = "done"
                  /\ events = 1
                  /\ orchestration.settled = call.settled
                  /\ call.settled = "resolved" =>
                       /\ orchestration.toolExecuted = 1
                       /\ orchestration.result = orchestration.registry[1]
                  /\ call.settled = "rejected" =>
                       /\ orchestration.toolExecutionFailed = 1
                       /\ orchestration.error = call.error)

C14_Witness ==
  \E a, b \in 1..Len(orchestrations) :
    /\ orchestrations[a].pc = "done"
    /\ orchestrations[a].settled = "resolved"
    /\ orchestrations[a].parameters = "{a: 1}"
    /\ orchestrations[a].toolExecuted = 1
    /\ orchestrations[b].pc = "done"
    /\ orchestrations[b].settled = "rejected"
    /\ orchestrations[b].error = "remote"
    /\ orchestrations[b].toolExecutionFailed = 1
    /\ tools["s1:echo"].executionCount = 2

----------------------------------------------------------------------------
(* Workflows: executeWorkflow() and cancelExecution() calls, on a catalog  *)
(* that is empty until discovery registers a tool.                         *)

StepA == WorkflowStep("A", "echo", <<>>, 1)
StepB == WorkflowStep("B", "echo", <<"A">>, 1)
Workflows ==
  {Workflow("wf1", <<>>), Workflow("", <<>>), Workflow("wf2", <<StepA>>),
   Workflow("wf3", <<StepA, StepB>>)}
Contexts == {OrchestrationContext("s1", "strict"), OrchestrationContext("s1", "lenient")}

NextWorkflow ==
  \/ Loop(CatalogPasses, CatalogTimers)
  \/ Discovery({<<>>, <<EchoTool>>}, {<<>>})
  \/ Orchestration(MaxRuns, MaxCancels, Workflows, Contexts)

SpecWorkflow == InitCold /\ [][NextWorkflow]_vars

(* executeWorkflow returns in this step. *)
RunReturns == Len(workflowRuns') = Len(workflowRuns) + 1
Returned == workflowRuns'[Len(workflowRuns')]

(* The Registry executeTool calls made in this step. *)
RegistryCalls == Len(calls') - Len(calls)

(* C15 as claimed: every executeWorkflow call resolves with an execution   *)
(* whose workflowId is the workflow's id, whose sessionId is the context's *)
(* sessionId, whose status is completed and whose endTime is set, and      *)
(* emits workflowCompleted once for it.                                    *)
C15_CompletedSkeleton ==
  \A r \in 1..Len(workflowRuns) :
    LET run == workflowRuns[r]
    IN /\ run.settled = "resolved"
       /\ run.execution.workflowId = run.workflow.id
       /\ run.execution.sessionId = run.context.sessionId
       /\ run.execution.status = "completed"
       /\ run.execution.endTime # Undefined
       /\ run.workflowCompleted = 1

(* C15 as amended: the same, with workflowId the workflow's id, or         *)
(* 'unknown' when the workflow's id is empty.                              *)
C15_CompletedSkeletonOrUnknown ==
  \A r \in 1..Len(workflowRuns) :
    LET run == workflowRuns[r]
    IN /\ run.settled = "resolved"
       /\ run.workflow.id # "" => run.execution.workflowId = run.workflow.id
       /\ run.workflow.id = "" => run.execution.workflowId = "unknown"
       /\ run.execution.sessionId = run.context.sessionId
       /\ run.execution.status = "completed"
       /\ run.execution.endTime # Undefined
       /\ run.workflowCompleted = 1

C15_Witness ==
  \E a, b \in 1..Len(workflowRuns) :
    /\ workflowRuns[a].workflow.id = "wf1"
    /\ workflowRuns[a].execution.workflowId = "wf1"
    /\ workflowRuns[a].execution.status = "completed"
    /\ workflowRuns[b].workflow.id = ""
    /\ workflowRuns[b].execution.workflowId = "unknown"
    /\ workflowRuns[b].workflowCompleted = 1

(* C16: when executeWorkflow returns an execution that is completed, every *)
(* step of the workflow (all steps of these workflows are reachable) has   *)
(* been executed through the Registry, and the result list holds one       *)
(* result per step.                                                        *)
C16_CompletedAfterAllSteps ==
  [][(RunReturns /\ Returned.execution.status = "completed") =>
       /\ RegistryCalls >= Len(Returned.workflow.steps)
       /\ Len(Returned.execution.results) = Len(Returned.workflow.steps)]_vars

(* C18: when executeWorkflow returns for a workflow with a step that can   *)
(* only fail (the catalog is empty, so that the Registry rejects every     *)
(* execution with 'Tool not found'), the errors list holds an error and,   *)
(* unless errorHandling is lenient, the execution is failed.               *)
C18_FatalStepFailsExecution ==
  [][(RunReturns /\ Returned.workflow.steps # <<>> /\ tools = Empty) =>
       /\ Returned.execution.errors # <<>>
       /\ Returned.context.preferences.errorHandling # "lenient"
            => Returned.execution.status = "failed"]_vars

(* C19: when executeWorkflow returns for a workflow of one step that can   *)
(* only fail (the catalog is empty), the step has been attempted           *)
(* maxRetries + 1 times: retried maxRetries times, and no more.            *)
C19_RetriedUpToBudget ==
  [][(RunReturns /\ Len(Returned.workflow.steps) = 1 /\ tools = Empty) =>
       RegistryCalls = Returned.workflow.steps[1].retryPolicy.maxRetries + 1]_vars

(* cancelExecution is called in this step. *)
CancelReturns == Len(cancels') = Len(cancels) + 1
Cancelled == cancels'[Len(cancels')]

(* C21: a cancelExecution(id) call returns true if and only if id is in    *)
(* activeExecutions when it is called; then it emits workflowCancelled     *)
(* once and leaves activeExecutions without id and otherwise as it was;    *)
(* otherwise it returns false, emits nothing and changes nothing; and of   *)
(* two calls for one id the later one returns false.                       *)
C21_CancelIffActive ==
  /\ [][CancelReturns =>
          /\ Cancelled.returned <=> Cancelled.id \in DOMAIN activeExecutions
          /\ Cancelled.returned =>
               /\ Cancelled.workflowCancelled = 1
               /\ DOMAIN activeExecutions' = (DOMAIN activeExecutions) \ {Cancelled.id}
               /\ \A x \in DOMAIN activeExecutions' : activeExecutions'[x] = activeExecutions[x]
          /\ ~Cancelled.returned =>
               /\ Cancelled.workflowCancelled = 0
               /\ activeExecutions' = activeExecutions
               /\ workflowRuns' = workflowRuns
               /\ orchestrations' = orchestrations
               /\ tools' = tools /\ servers' = servers]_vars
  /\ [](\A a, b \in 1..Len(cancels) :
          (a < b /\ cancels[a].id = cancels[b].id) => ~cancels[b].returned)

C21_Witness ==
  \E r \in 1..Len(workflowRuns) :
    /\ workflowRuns[r].workflow.steps # <<>>
    /\ Len(cancels) = 2
    /\ cancels[1].id = workflowRuns[r].execution.id
    /\ cancels[2].id = workflowRuns[r].execution.id
    /\ ~cancels[1].returned /\ cancels[1].workflowCancelled = 0
    /\ ~cancels[2].returned /\ cancels[2].workflowCancelled = 0
    /\ getExecution(activeExecutions, cancels[1].id) = {}
    /\ getActiveExecutions(activeExecutions) = <<>>

Rank(status) ==
  IF status = "pending" THEN 0 ELSE IF status = "running" THEN 1 ELSE 2
Terminal == {"completed", "failed", "cancelled"}

(* C22: in every step the status of every execution stays where it is or   *)
(* moves forward along pending, running, {completed, failed, cancelled};   *)
(* a status of completed, failed or cancelled stays what it is, also when  *)
(* cancelExecution is called for the execution.                            *)
C22_StatusMovesForward ==
  [][\A r \in 1..Len(workflowRuns) :
       LET before == workflowRuns[r].execution.status
           after == workflowRuns'[r].execution.status
       IN /\ workflowRuns'[r].execution.id = workflowRuns[r].execution.id
          /\ Rank(after) >= Rank(before)
          /\ before \in Terminal => after = before]_vars

C22_Witness ==
  \E r \in 1..Len(workflowRuns), k \in 1..Len(cancels) :
    /\ Len(workflowRuns) = MaxRuns
    /\ cancels[k].id = workflowRuns[r].execution.id
    /\ workflowRuns[r].execution.status = "completed"
    /\ workflowRuns[r].execution.status \in Terminal

----------------------------------------------------------------------------
(* The execute endpoint: POST /api/tools/:toolId/execute requests with     *)
(* bodies that fail and pass the schema, without a key in the environment, *)
(* on one tool that the discovery pass of initialize() registers.          *)

SessionContext == RequestContext(String("s-test"), NoNumber, NoString, NoNumber)
ExecuteBodies ==
  { ExecuteToolRequest("'not-an-object'", NoRequestContext),
    ExecuteToolRequest("{msg: 'hi'}", SessionContext),
    ExecuteToolRequest("{}", RequestContext(NoString, NoNumber, String("urgent"), NoNumber)),
    ExecuteToolRequest(NoParameters,
                       RequestContext(NoString, Number(1000), String("high"), Number(5))) }

NextExecute ==
  \/ Startup(CatalogPasses, CatalogInits)
  \/ Discovery({<<>>, <<EchoTool>>}, {<<>>})
  \/ ExecuteArrivals(MaxRequests, {"s1:echo"}, {NoHeader}, ExecuteBodies)
  \/ ExecuteEndpoint

SpecExecute == InitCold /\ [][NextExecute]_vars

(* C23: an execute request whose body fails the schema is answered 400 and *)
(* makes no Orchestrator call; the Orchestrator is called only for a body  *)
(* that passes; such a request is answered 200 with the result of its      *)
(* Orchestrator call when that call resolved, and 500 with an error body   *)
(* when it was rejected; no request is answered 200 unless its call        *)
(* resolved, with a result the remote plane returned.                      *)
C23_ExecuteStatus ==
  /\ [][Len(orchestrations') > Len(orchestrations) =>
          \E r \in 1..Len(requests) :
            /\ requests[r].pc = "import"
            /\ safeParse(requests[r].body)
            /\ requests[r].orchestration = 0
            /\ requests'[r].orchestration = Len(orchestrations')
            /\ Len(orchestrations') = Len(orchestrations) + 1]_vars
  /\ [](\A r \in 1..Len(requests) :
          LET request == requests[r] IN
          /\ request.code \in {0, 200, 400, 500}
          /\ request.code = 0 <=> request.pc # "done"
          /\ ~safeParse(request.body) =>
               /\ request.orchestration = 0
               /\ request.pc = "done" =>
                    request.code = 400 /\ request.reply = "error: Invalid tool execution payload"
          /\ (safeParse(request.body) /\ request.pc = "done") =>
               LET orchestration == orchestrations[request.orchestration] IN
               /\ orchestration.pc = "done"
               /\ orchestration.settled = "resolved" =>
                    /\ request.code = 200
                    /\ request.reply = "result"
                    /\ request.result = orchestration.result
                    /\ calls[request.result].returned
               /\ orchestration.settled = "rejected" =>
                    /\ request.code = 500
                    /\ request.reply = "error: Tool execution failed")

C23_Witness ==
  \E a, b, c \in 1..Len(requests) :
    /\ requests[a].code = 400 /\ requests[a].orchestration = 0
    /\ requests[b].code = 200 /\ requests[b].result > 0
    /\ requests[c].code = 500
    /\ orchestrations[requests[c].orchestration].error = "remote"
    /\ Len(orchestrations) = 2

----------------------------------------------------------------------------
(* The API key: requests for the public urls, the tools list and the       *)
(* execute route, without the x-api-key header, with the key and with      *)
(* another one, on a server whose environment has the key or has none.     *)

Urls == {"/health", "/ready", "/ws", "/api/tools"}
Keys == {NoHeader, "test-key", "wrong"}
AuthBodies ==
  { ExecuteToolRequest("{msg: 'hi'}", SessionContext),
    ExecuteToolRequest("'not-an-object'", NoRequestContext) }

NextAuth ==
  \/ Environment({"test-key"})
  \/ Startup(CatalogPasses, CatalogInits)
  \/ Discovery({<<EchoTool>>}, {<<>>})
  \/ Arrivals(AuthRequests, Urls, Keys)
  \/ ExecuteArrivals(AuthRequests, {"s1:echo"}, Keys, AuthBodies)
  \/ Routes
  \/ ExecuteEndpoint

SpecAuth == InitCold /\ [][NextAuth]_vars

(* The request is one the key shuts out: a key is set, the url is not      *)
(* public, and x-api-key is not the key.                                   *)
ShutOut(request) ==
  apiKey # NoApiKey /\ ~IsPublic(request.url) /\ request.key # apiKey

----------------------------------------------------------------------------
(* Categories: one tool that discovery reports with every description made *)
(* of keywords of the six groups.                                          *)

GroupWords == {"retrieval", "task", "sql", "git", "email", "upload"}
Described(words) == [MCPTool("s1", "echo", 1) EXCEPT !.description = words]
CategoryLists == {<<Described(words)>> : words \in SUBSET GroupWords}

NextCategory ==
  \/ Loop(CatalogPasses, CatalogTimers)
  \/ Discovery(CategoryLists, {<<>>})

SpecCategory == InitCold /\ [][NextCategory]_vars

(* The taxonomy in its order, and the keywords of each of its groups. *)
Taxonomy ==
  <<"rag", "project-management", "data", "development", "communication",
    "file-management">>
KeywordsOf(group) ==
  IF group = "rag" THEN {"rag", "search", "retrieval"}
  ELSE IF group = "project-management" THEN {"project", "task", "document"}
  ELSE IF group = "data" THEN {"data", "database", "sql"}
  ELSE IF group = "development" THEN {"code", "git", "build"}
  ELSE IF group = "communication" THEN {"notification", "message", "email"}
  ELSE {"file", "upload", "download"}
Matching(tool) ==
  {g \in 1..Len(Taxonomy) : Text(tool) \cap KeywordsOf(Taxonomy[g]) # {}}

(* C26: the category of every entry is one of the taxonomy or general: the *)
(* first group in the taxonomy's order with a keyword in the tool's name   *)
(* or description, and general exactly when no group has one.              *)
C26_FirstMatchWins ==
  \A id \in DOMAIN tools :
    LET entry == tools[id]
        matching == Matching(entry.tool)
    IN /\ entry.category \in {Taxonomy[g] : g \in 1..Len(Taxonomy)} \cup {"general"}
       /\ entry.category = "general" <=> matching = {}
       /\ \A g \in matching :
            (\A h \in matching : g <= h) => entry.category = Taxonomy[g]

C26_Witness ==
  \E id \in DOMAIN tools :
    /\ tools[id].tool.description = {"task", "git", "upload"}
    /\ Cardinality(Matching(tools[id].tool)) = 3
    /\ tools[id].category = "project-management"

----------------------------------------------------------------------------
(* The events of a pass.                                                   *)

(* How often the pass emitted this event for this id. *)
Emitted(events, event, id) ==
  Cardinality({i \in 1..Len(events) : events[i] = Emit(event, id)})

(* The list reports the known id with another description or version. *)
ReportedChanged(list, id) ==
  /\ id \in DOMAIN tools
  /\ \E k \in 1..Len(list) :
       /\ ~list[k].malformed
       /\ generateToolId(list[k]) = id
       /\ hasToolChanged(tools[id].tool, list[k])

Once(condition) == IF condition THEN 1 ELSE 0

(* C27: when a pass completes updateTools, it has emitted toolRegistered   *)
(* once for each reported id that had no entry, toolUpdated once for each  *)
(* known id reported with another description or version, toolUnavailable  *)
(* once for each entry that goes from available to unavailable, and no     *)
(* other event; none for an entry that was unavailable already.            *)
C27_EventsOncePerChange ==
  [][\A p \in PassIds : PassUpdatesTools(p) =>
       LET list == passes'[p].list
           events == passes'[p].events
       IN \A id \in ToolIds \cup DOMAIN tools :
            /\ Emitted(events, "toolRegistered", id)
                 = Once(id \in ReportedIds(list) /\ id \notin DOMAIN tools)
            /\ Emitted(events, "toolUpdated", id) = Once(ReportedChanged(list, id))
            /\ Emitted(events, "toolUnavailable", id)
                 = Once(id \in DOMAIN tools /\ tools[id].isAvailable
                        /\ ~tools'[id].isAvailable)]_vars

----------------------------------------------------------------------------
(* Statistics under interleaving.                                          *)

(* The executeTool() calls that have run updateToolStatistics on the entry *)
(* of id.                                                                  *)
Counted(id) == {k \in 1..Len(calls) : calls[k].toolId = id /\ calls[k].stats = 1}

(* C28: whatever discovery passes replace or mark an entry while calls for *)
(* its id await the remote plane, the entry's executionCount is the number *)
(* of calls that have updated its statistics, and a forwarded call has     *)
(* updated them exactly once as soon as it is answered and not before: the *)
(* count after the call is one more than it would be without it.           *)
C28_NoLostUpdate ==
  /\ \A id \in DOMAIN tools : tools[id].executionCount = Cardinality(Counted(id))
  /\ \A c \in 1..Len(calls) :
       /\ calls[c].stats \in {0, 1}
       /\ calls[c].posts = 1 => (calls[c].stats = 1 <=> calls[c].pc # "post")

(* The first call was forwarded and answered at a time after the second    *)
(* call was rejected since a pass had marked the entry unavailable: the    *)
(* pass marked it while the first call was awaiting the remote plane, and  *)
(* the count holds the updates of both calls.                              *)
C28_Witness ==
  /\ Len(calls) = 2
  /\ calls[1].toolId = calls[2].toolId
  /\ calls[1].posts = 1 /\ calls[1].pc = "done"
  /\ calls[2].error = "Tool is not available"
  /\ LET entry == tools[calls[1].toolId]
     IN /\ ~entry.isAvailable
        /\ entry.lastExecuted > calls[2].startTime
        /\ entry.executionCount = 2

----------------------------------------------------------------------------
(* Overlapping saves: the discovery loop reports one tool in changing      *)
(* versions, each change schedules a save, and a file system that may take *)
(* longer over a write than the debounce delay.                            *)

NextWrites ==
  \/ Loop(CatalogPasses, CatalogTimers)
  \/ Discovery(EchoLists, {<<>>})
  \/ Persistence(RaceWrites)

SpecWrites == InitCold /\ [][NextWrites]_vars

(* The saveRegistry() invocations that are awaiting writeFile. *)
Writing == {i \in 1..Len(writes) : writes[i].pc = "write"}

(* C29: at most one writeFile on the persistence file is in flight at any  *)
(* time.                                                                   *)
C29_OneWriteInFlight == Cardinality(Writing) <= 1

----------------------------------------------------------------------------
(* The context the execute endpoint builds.                                *)

RetriesInRange(context) ==
  context.maxRetries >= context.retryCount /\ context.retryCount >= 0

(* C30: every context the execute route has built for an accepted body,    *)
(* and the one its Orchestrator call and its Registry call were handed,    *)
(* has maxRetries >= retryCount >= 0.                                      *)
C30_RetriesInRange ==
  \A r \in 1..Len(requests) :
    requests[r].orchestration # 0 =>
      LET orchestration == orchestrations[requests[r].orchestration]
      IN /\ safeParse(requests[r].body)
         /\ RetriesInRange(requests[r].context)
         /\ RetriesInRange(orchestration.context)
         /\ \A k \in 1..Len(orchestration.registry) :
              RetriesInRange(calls[orchestration.registry[k]].context)

----------------------------------------------------------------------------
(* The workflows route: requests with a well-formed workflow, with one     *)
(* that repeats a step id, with one whose steps depend on each other, and  *)
(* with one that has no steps.                                             *)

StepAOnB == WorkflowStep("A", "echo", <<"B">>, 1)
GraphBodies ==
  { ExecuteWorkflowRequest(w, OrchestrationContext("s1", "strict")) :
      w \in { Workflow("wf3", <<StepA, StepB>>),
              Workflow("dup", <<StepA, StepA>>),
              Workflow("cyc", <<StepAOnB, StepB>>),
              [id |-> "bad", name |-> "Test WF"] } }

NextGraph ==
  \/ WorkflowArrivals(GraphRequests, {NoHeader}, GraphBodies)
  \/ WorkflowEndpoint

SpecGraph == InitCold /\ [][NextGraph]_vars

UniqueStepIds(workflow) ==
  \A i, j \in 1..Len(workflow.steps) :
    workflow.steps[i].id = workflow.steps[j].id => i = j

(* <<a, b>>: the step of id a names b among its dependencies. *)
Edges(workflow) ==
  UNION {{<<workflow.steps[i].id, workflow.steps[i].dependencies[k]>> :
            k \in 1..Len(workflow.steps[i].dependencies)} :
         i \in 1..Len(workflow.steps)}

RECURSIVE Paths(_, _)
Paths(edges, n) ==
  IF n = 0 THEN edges
  ELSE Paths(edges \cup {<<p[1][1], p[2][2]>> :
                           p \in {q \in edges \X edges : q[1][2] = q[2][1]}}, n - 1)

Acyclic(workflow) ==
  \A path \in Paths(Edges(workflow), Len(workflow.steps)) : path[1] # path[2]

(* C31: every executeWorkflow call that returns a completed execution, and *)
(* every workflows request that is answered 200, is for a workflow with    *)
(* unique step ids and an acyclic dependency graph.                        *)
C31_OnlyWellFormedWorkflowsRun ==
  /\ \A k \in 1..Len(workflowRuns) :
       workflowRuns[k].execution.status = "completed" =>
         UniqueStepIds(workflowRuns[k].workflow) /\ Acyclic(workflowRuns[k].workflow)
  /\ \A r \in 1..Len(requests) :
       (requests[r].url = WorkflowsUrl /\ requests[r].code = 200) =>
         /\ UniqueStepIds(requests[r].body.workflow)
         /\ Acyclic(requests[r].body.workflow)

----------------------------------------------------------------------------
(* The servers map.                                                        *)

(* C32: no step makes the lastSeen stored for a server smaller, or changes *)
(* its discoveredAt.                                                       *)
C32_LastSeenNeverDecreases ==
  [][\A id \in DOMAIN servers :
       /\ id \in DOMAIN servers'
       /\ servers'[id].lastSeen >= servers[id].lastSeen
       /\ servers'[id].discoveredAt = servers[id].discoveredAt]_vars

----------------------------------------------------------------------------
(* Tool ids: the remote plane reports a tool named echo without serverId   *)
(* (serverId is optional in MCPToolSchema), one of a server whose id is    *)
(* 'unknown', and one of s1.                                               *)

IdTools == {MCPTool("", "echo", 1), MCPTool("unknown", "echo", 1), MCPTool("s1", "echo", 1)}
IdLists == {<<>>} \cup {<<a>> : a \in IdTools} \cup {<<a, b>> : a, b \in IdTools}

NextIds ==
  \/ Loop(CatalogPasses, CatalogTimers)
  \/ Discovery(IdLists, {<<>>})

SpecIds == InitCold /\ [][NextIds]_vars

SameTool(a, b) == a.serverId = b.serverId /\ a.name = b.name

(* C33: the id of every entry whose tool has a serverId is serverId:name,  *)
(* and when a pass completes updateTools, two tools that got the same      *)
(* entry (two records of its list, or a record of its list and the tool    *)
(* the entry held before) have the same serverId and the same name.        *)
C33_OneEntryPerTool ==
  /\ [](\A id \in DOMAIN tools :
          tools[id].tool.serverId # "" =>
            id = tools[id].tool.serverId \o ":" \o tools[id].tool.name)
  /\ [][\A p \in PassIds : PassUpdatesTools(p) =>
          LET list == passes'[p].list
              reported == {k \in 1..Len(list) : ~list[k].malformed}
          IN /\ \A i, j \in reported :
                  generateToolId(list[i]) = generateToolId(list[j])
                    => SameTool(list[i], list[j])
             /\ \A i \in reported, id \in DOMAIN tools :
                  generateToolId(list[i]) = id => SameTool(list[i], tools[id].tool)]_vars

----------------------------------------------------------------------------
(* Rejected calls.                                                         *)

(* executeTool is called in this step and takes the path of a rejection. *)
RejectedCall ==
  /\ Len(calls') = Len(calls) + 1
  /\ calls'[Len(calls')].error \in {"Tool not found", "Tool is not available"}

(* C34: the step in which executeTool finds no entry, or an entry that is  *)
(* not available, and runs its catch block leaves executionCount,          *)
(* successRate, averageExecutionTime and lastExecuted of every entry as    *)
(* they were.                                                              *)
C34_RejectionChangesNothing ==
  [][RejectedCall =>
       /\ DOMAIN tools' = DOMAIN tools
       /\ \A id \in DOMAIN tools :
            /\ tools'[id].executionCount = tools[id].executionCount
            /\ tools'[id].successRate = tools[id].successRate
            /\ tools'[id].averageExecutionTime = tools[id].averageExecutionTime
            /\ tools'[id].lastExecuted = tools[id].lastExecuted]_vars

----------------------------------------------------------------------------
(* Stopping the loop.                                                      *)

(* The interval callback begins a pass in this step. *)
PeriodicPassStarts ==
  \E p \in PassIds :
    passes[p].pc = "idle" /\ passes'[p].pc = "get" /\ passes'[p].owner = "tick"

(* C35: while a stopDiscovery() call has returned and startDiscovery() has *)
(* not been called since, no periodic pass is started.                     *)
C35_NoPassAfterStop == [][stopped => ~PeriodicPassStarts]_vars

----------------------------------------------------------------------------
(* Overlapping passes.                                                     *)

(* The catalog shows what the list reports: the entries that are available *)
(* are those of the reported ids, with the reported tools.                 *)
Reflects(map, list) ==
  /\ {id \in DOMAIN map : map[id].isAvailable} = ReportedIds(list)
  /\ \A k \in 1..Len(list) : map[generateToolId(list[k])].tool = list[k]

(* C36: when pass p applies its response after pass q, whose request was   *)
(* issued later, has applied its own, the catalog still shows the response *)
(* to q's request.                                                         *)
C36_LastRequestWins ==
  [][\A p, q \in PassIds :
       (PassUpdatesTools(p) /\ passes[q].pc = "tools" /\ p \in passes[q].after)
         => Reflects(tools', passes[q].list)]_vars

----------------------------------------------------------------------------
(* Results that report a failure.                                          *)

(* At most C executeTool() calls, on the ids of Ids, that the remote plane *)
(* answers with a result reporting success, with a result reporting a      *)
(* failure, or not at all.                                                 *)
Results(C, Ids) ==
  \/ \E toolId \in Ids : Len(calls) < C /\ ExecuteTool(toolId, NoParameters, NoContext) /\ UNCHANGED <<orchestratorVars, serverVars, stopped>>
  \/ \E c \in 1..Len(calls), returned \in BOOLEAN, success \in BOOLEAN :
       ExecuteAnswer(c, returned, success) /\ UNCHANGED <<orchestratorVars, serverVars, stopped>>
  \/ \E c \in 1..Len(calls) : ExecuteSettle(c) /\ UNCHANGED <<orchestratorVars, serverVars, stopped>>

NextResults ==
  \/ Loop(CatalogPasses, CatalogTimers)
  \/ Discovery(EchoLists, {<<>>})
  \/ Results(ResultCalls, {"s1:echo"})

SpecResults == InitCold /\ [][NextResults]_vars

(* The POST of call c settles in this step. *)
PostSettles(c) == calls[c].pc = "post" /\ calls'[c].pc = "stats"

(* C37: when the POST of a call settles, the entry's successRate counts    *)
(* the execution as a success if the remote plane returned a result with   *)
(* success = true, and as a failure otherwise.                             *)
C37_FailedResultCountsAsFailure ==
  [][\A c \in 1..Len(calls) :
       (PostSettles(c) /\ calls[c].toolId \in DOMAIN tools)
         => tools'[calls[c].toolId].successRate
              = updateToolStatistics(tools, calls[c].toolId, now - calls[c].startTime,
                                     calls'[c].success)[calls[c].toolId].successRate]_vars

----------------------------------------------------------------------------
(* Passes that fail.                                                       *)

(* Pass p ends in this step without having applied its response: the       *)
(* request failed, the tools field was not a list, or updateTools threw.   *)
PassFails(p) ==
  /\ passes[p].pc \in {"get", "servers"}
  /\ passes'[p].pc = "ret"

(* C38: a pass that fails has changed neither the servers map, in its      *)
(* updateServers, nor the tools map, in the updateTools that threw.        *)
C38_FailedPassChangesNothing ==
  [][\A p \in PassIds :
       PassFails(p) => /\ ~passes[p].changed
                       /\ tools' = tools
                       /\ servers' = servers]_vars

----------------------------------------------------------------------------
(* The range of the statistics.                                            *)

(* successRate is a fraction between 0 and 1, executionCount is not        *)
(* negative.                                                               *)
StatisticsInRange(entry) ==
  /\ entry.successRate[2] > 0
  /\ 0 <= entry.successRate[1]
  /\ entry.successRate[1] <= entry.successRate[2]
  /\ entry.executionCount >= 0

(* C39: every entry has 0 <= successRate <= 1 and executionCount >= 0 in   *)
(* every state, and no step of a discovery pass, an entry update or an     *)
(* execution removes an entry or lowers its executionCount.                *)
C39_StatisticsInRange ==
  /\ [](\A id \in DOMAIN tools : StatisticsInRange(tools[id]))
  /\ [][\A id \in DOMAIN tools :
          /\ id \in DOMAIN tools'
          /\ tools'[id].executionCount >= tools[id].executionCount]_vars

(* The entry has been executed EntryCalls times, with a result and with a  *)
(* failure, it has been replaced by one for a changed tool, and a pass has *)
(* marked it unavailable.                                                  *)
C39_Witness ==
  \E id \in DOMAIN tools :
    /\ tools[id].executionCount = EntryCalls
    /\ tools[id].successRate = <<1, 2>>
    /\ tools[id].tool.version = MaxVer
    /\ ~tools[id].isAvailable
    /\ \A c \in 1..Len(calls) : calls[c].pc = "done"

----------------------------------------------------------------------------
(* The Orchestrator and the catalog.                                       *)

(* Discovery, and Orchestrator calls of every kind: executeTool,           *)
(* executeWorkflow and cancelExecution.                                    *)
NextFrame ==
  \/ Loop(CatalogPasses, CatalogTimers)
  \/ Discovery(EchoLists, {<<>>})
  \/ Passthrough(FrameCalls, {"s1:echo"}, {NoParameters}, {NoContext})
  \/ \E c \in 1..Len(calls), returned \in BOOLEAN :
       ExecuteResponse(c, returned) /\ UNCHANGED <<orchestratorVars, serverVars, stopped>>
  \/ \E c \in 1..Len(calls) : ExecuteSettle(c) /\ UNCHANGED <<orchestratorVars, serverVars, stopped>>
  \/ Orchestration(FrameRuns, FrameCancels, {Workflow("wf2", <<StepA>>)},
                   {OrchestrationContext("s1", "strict")})

SpecFrame == InitCold /\ [][NextFrame]_vars

(* The catalog is the same after the step. *)
CatalogUnchanged == tools' = tools /\ servers' = servers

(* C40: a step of the Orchestrator that makes no Registry call leaves the  *)
(* tools and servers maps unchanged, executeWorkflow and cancelExecution   *)
(* make no Registry call, and Orchestrator.executeTool makes one Registry  *)
(* executeTool call and changes the maps only as that call does.           *)
C40_OrchestratorLeavesCatalog ==
  /\ [][(orchestratorVars' # orchestratorVars /\ calls' = calls) => CatalogUnchanged]_vars
  /\ [][(workflowRuns' # workflowRuns \/ cancels' # cancels) => calls' = calls]_vars
  /\ [][Len(orchestrations') > Len(orchestrations) =>
          /\ Len(calls') = Len(calls) + 1
          /\ servers' = servers
          /\ tools' \in {tools,
                         updateToolStatistics(tools, calls'[Len(calls')].toolId, 0, FALSE)}]_vars
  /\ [](\A o \in 1..Len(orchestrations) : Len(orchestrations[o].registry) = 1)

(* An Orchestrator call on an entry that is not available has been         *)
(* rejected, the Registry has counted it, and a workflow has been executed *)
(* and a cancellation asked for.                                           *)
C40_Witness ==
  /\ \E o \in 1..Len(orchestrations) :
       /\ orchestrations[o].pc = "done"
       /\ orchestrations[o].settled = "rejected"
       /\ orchestrations[o].toolId \in DOMAIN tools
       /\ tools[orchestrations[o].toolId].executionCount >= 1
  /\ Len(workflowRuns) = FrameRuns
  /\ Len(cancels) = FrameCancels

====
